---- MODULE Spec2Model ----
(***************************************************************************)
(* A model of the chess engine core: bitboards, Position, castle rights,   *)
(* Zobrist hashing, FEN loading, Game make/unmake and the alpha-beta       *)
(* search of MoveFinder.                                                   *)
(*                                                                         *)
(* Conventions.  A bitboard (BB, a u64) is the set of its set bits, a      *)
(* subset of 0..63; | is \cup, & is \cap, ^ is the symmetric difference.   *)
(* A Zobrist key is the set of the table entries XORed into it an odd      *)
(* number of times (XOR of 64-bit constants = symmetric difference of the  *)
(* sets of their table indices); equal sets are equal keys.  A string is   *)
(* the sequence of its characters, each a one-character string; a          *)
(* character outside ASCII is written by its code point ("U+00E9").        *)
(* Option<T>::None is NoPiece, NoMove or NoSquare.                         *)
(***************************************************************************)
EXTENDS Integers, Sequences, FiniteSets, TLC

VARIABLES
    game,      \* Game: position, state, repetition history
    finder,    \* MoveFinder: tt, depth, max_depth
    stack,     \* call stack of get / alpha_beta / quiescence activations
    ret,       \* value returned by the activation that returned last
    obs,       \* observations of the run (what returned last, results of get)
    io         \* harness: the text fed to load_fen and its result, call logs

vars == <<game, finder, stack, ret, obs, io>>

----------------------------------------------------------------------------
(* Basics *)

BOARD_LENGTH == 64
BOARD_SIZE == 64
NUM_FILES == 8

Squares == 0 .. (BOARD_LENGTH - 1)
NoSquare == -1

White == "w"
Black == "b"
Sides == {White, Black}
SIDE_MAP == <<White, Black>>
opposite(side) == IF side = White THEN Black ELSE White

PieceTypeSeq == <<"p", "n", "b", "r", "q", "k">>
PieceTypes == {"p", "n", "b", "r", "q", "k"}
to_usize(pt) == CHOOSE i \in 0 .. 5 : PieceTypeSeq[i + 1] = pt
PieceScore(pt) ==
    CASE pt = "p" -> 100 [] pt = "n" -> 300 [] pt = "b" -> 310
      [] pt = "r" -> 500 [] pt = "q" -> 900 [] OTHER -> 0

NoPiece == [side |-> "-", piece_type |-> "-"]
Piece_new(side, pt) == [side |-> side, piece_type |-> pt]

Square_from(rank, file) == rank * NUM_FILES + file
file_of(sq) == sq % NUM_FILES
rank_of(sq) == sq \div NUM_FILES
is_light_sq(sq) == (rank_of(sq) + file_of(sq)) % 2 = 1

Min(S) == CHOOSE x \in S : \A y \in S : x <= y
Max(S) == CHOOSE x \in S : \A y \in S : x >= y

----------------------------------------------------------------------------
(* bitboard.rs *)

EMPTY == {}
BB_new(sq) == {sq}
BitXor(a, b) == (a \ b) \cup (b \ a)
\* 0u64.wrapping_sub(x), the complement of x plus one: the carry clears the
\* ones of the complement below the lowest set bit of x and stops there,
\* setting that bit; above it the complement stays; 0 stays 0
wrapping_neg(bb) ==
    IF bb = EMPTY THEN EMPTY
    ELSE LET carry_stop == Min(bb)
         IN  {carry_stop}
               \cup {sq \in (carry_stop + 1) .. (BOARD_LENGTH - 1) : sq \notin bb}
\* the highest bit for the lowest
lsb_highest(bb) == IF bb = EMPTY THEN EMPTY ELSE {Max(bb)}
\* x & (0 - x)
lsb(bb) == bb \cap wrapping_neg(bb)
trailing_zeros(bb) == IF bb = EMPTY THEN BOARD_LENGTH ELSE Min(bb)
bitscan(bb) == trailing_zeros(bb)
count_ones(bb) == Cardinality(bb)
not_empty(bb) == bb # EMPTY

----------------------------------------------------------------------------
(* state/position.rs *)

bb_occupied(p) == p.bb_sides[White] \cup p.bb_sides[Black]
bb_pc(p, pt, side) == p.bb_pieces[pt] \cap p.bb_sides[side]
king_sq(p, side) == bitscan(p.bb_pieces["k"] \cap p.bb_sides[side])
at(p, sq) == p.board[sq]

\* remove_piece without the material update
remove_piece_stale_score(p, pt, from, side) ==
    [p EXCEPT !.bb_pieces[pt] = BitXor(@, BB_new(from)),
              !.bb_sides[side] = BitXor(@, BB_new(from)),
              !.board[from] = NoPiece]

remove_piece(p, pt, from, side) ==
    [p EXCEPT !.bb_pieces[pt] = BitXor(@, BB_new(from)),
              !.bb_sides[side] = BitXor(@, BB_new(from)),
              !.board[from] = NoPiece,
              !.score[side] = @ - PieceScore(pt)]

remove_at(p, sq) ==
    IF p.board[sq] # NoPiece
    THEN remove_piece(p, p.board[sq].piece_type, sq, p.board[sq].side)
    ELSE p

\* place_piece without the side bitboard update
place_piece_no_side(p, pt, to, side) ==
    [p EXCEPT !.bb_pieces[pt] = @ \cup BB_new(to),
              !.board[to] = Piece_new(side, pt),
              !.score[side] = @ + PieceScore(pt)]

place_piece(p, pt, to, side) ==
    [p EXCEPT !.bb_pieces[pt] = @ \cup BB_new(to),
              !.bb_sides[side] = @ \cup BB_new(to),
              !.board[to] = Piece_new(side, pt),
              !.score[side] = @ + PieceScore(pt)]

move_piece(p, pt, from, to, side) ==
    place_piece(remove_piece(p, pt, from, side), pt, to, side)

\* insufficient_material without the test that the two bishops are one a side
insufficient_material_any_two_bishops(p) ==
    IF not_empty(p.bb_pieces["p"]) THEN FALSE
    ELSE IF not_empty(p.bb_pieces["r"] \cup p.bb_pieces["q"]) THEN FALSE
    ELSE LET pieces_left_count == count_ones(bb_occupied(p))
             bishops_bb == p.bb_pieces["b"]
         IN  IF pieces_left_count < 4 THEN TRUE
             ELSE IF pieces_left_count = 4 /\ count_ones(bishops_bb) = 2
                  THEN is_light_sq(bitscan(bishops_bb))
                         = is_light_sq(bitscan(BitXor(bishops_bb, lsb(bishops_bb))))
                  ELSE FALSE

insufficient_material(p) ==
    IF not_empty(p.bb_pieces["p"]) THEN FALSE
    ELSE IF not_empty(p.bb_pieces["r"] \cup p.bb_pieces["q"]) THEN FALSE
    ELSE LET pieces_left_count == count_ones(bb_occupied(p))
             bishops_bb == p.bb_pieces["b"]
         IN  IF pieces_left_count < 4 THEN TRUE
             ELSE IF /\ pieces_left_count = 4
                     /\ count_ones(bishops_bb) = 2
                     /\ count_ones(bb_pc(p, "b", White)) = 1
                  THEN LET first_bishop_is_light == is_light_sq(bitscan(bishops_bb))
                           second_bishop_bb == BitXor(bishops_bb, lsb(bishops_bb))
                           second_bishop_is_light == is_light_sq(bitscan(second_bishop_bb))
                       IN  first_bishop_is_light = second_bishop_is_light
                  ELSE FALSE

EmptyBoard == [sq \in Squares |-> NoPiece]
EmptyPosition ==
    [bb_sides |-> [s \in Sides |-> EMPTY],
     bb_pieces |-> [pt \in PieceTypes |-> EMPTY],
     board |-> EmptyBoard,
     score |-> [s \in Sides |-> 0]]

----------------------------------------------------------------------------
(* state/castle_rights.rs: a CastleRights(u8) is the set of its set bits,  *)
(* bit 3 = white kingside, 2 = white queenside, 1 = black kingside,        *)
(* 0 = black queenside                                                     *)

Kingside == "K"
Queenside == "Q"
Castles == {Kingside, Queenside}
CR_NONE == {}
CR_KINGSIDE == {3, 1}
CR_QUEENSIDE == {2, 0}
CR_WHITE == {3, 2}
CR_BLACK == {1, 0}
CR_ALL == {3, 2, 1, 0}
COLOR_RIGHTS(side) == IF side = White THEN CR_WHITE ELSE CR_BLACK
CASTLE_RIGHTS(castle) == IF castle = Queenside THEN CR_QUEENSIDE ELSE CR_KINGSIDE

cr_set(cr, side, castle) == cr \cup (COLOR_RIGHTS(side) \cap CASTLE_RIGHTS(castle))

can(cr, side, castle) ==
    LET side_rights == IF side = White THEN CR_WHITE ELSE CR_BLACK
        castle_rights == IF castle = Kingside THEN CR_KINGSIDE ELSE CR_QUEENSIDE
        rights == castle_rights \cap side_rights
    IN  (cr \cap rights) # {}

\* remove_rights taking both rights of the side
remove_rights_both(cr, side, castle) == cr \ COLOR_RIGHTS(side)

remove_rights(cr, side, castle) ==
    cr \ (COLOR_RIGHTS(side) \cap CASTLE_RIGHTS(castle))

remove_rights_for_color(cr, side) == cr \ COLOR_RIGHTS(side)

RECURSIVE cr_iter(_)
cr_iter(cr) ==
    IF cr = EMPTY THEN <<>>
    ELSE <<trailing_zeros(lsb(cr))>> \o cr_iter(BitXor(cr, lsb(cr)))

cr_display(cr) ==
    IF cr = {} THEN <<"-">>
    ELSE (IF (cr \cap (CR_KINGSIDE \cap CR_WHITE)) # {} THEN <<"K">> ELSE <<>>)
      \o (IF (cr \cap (CR_QUEENSIDE \cap CR_WHITE)) # {} THEN <<"Q">> ELSE <<>>)
      \o (IF (cr \cap (CR_KINGSIDE \cap CR_BLACK)) # {} THEN <<"k">> ELSE <<>>)
      \o (IF (cr \cap (CR_QUEENSIDE \cap CR_BLACK)) # {} THEN <<"q">> ELSE <<>>)

----------------------------------------------------------------------------
(* state/zobrist.rs *)

\* the key tables: an entry is named by its place in the concatenation
\* PIECES_KEY[2][6][64], EN_PASSANT_KEY[8], CASTLE_RIGHTS_KEY[4], SIDE_KEY
NUM_UNIQUE_PIECES == 6
NUM_CASTLE_RIGHTS == 4
side_to_usize(side) == IF side = White THEN 0 ELSE 1
PIECES_KEY(side, pt, sq) ==
    (side_to_usize(side) * NUM_UNIQUE_PIECES + to_usize(pt)) * BOARD_SIZE + sq
EN_PASSANT_KEY(file) == 2 * NUM_UNIQUE_PIECES * BOARD_SIZE + file
CASTLE_RIGHTS_KEY(idx) == 2 * NUM_UNIQUE_PIECES * BOARD_SIZE + NUM_FILES + idx
SIDE_KEY == 2 * NUM_UNIQUE_PIECES * BOARD_SIZE + NUM_FILES + NUM_CASTLE_RIGHTS
ZobristXor(z, key) == BitXor(z, {key})

hash_piece(z, side, pt, sq) == ZobristXor(z, PIECES_KEY(side, pt, sq))

hash_en_passant(z, en_passant) ==
    IF en_passant # NoSquare THEN ZobristXor(z, EN_PASSANT_KEY(file_of(en_passant))) ELSE z

hash_side(z, side) == IF side = Black THEN ZobristXor(z, SIDE_KEY) ELSE z

RECURSIVE XorCastleKeys(_, _)
XorCastleKeys(z, bits) ==
    IF bits = <<>> THEN z
    ELSE XorCastleKeys(ZobristXor(z, CASTLE_RIGHTS_KEY(Head(bits))), Tail(bits))

\* hash_castle_rights_all reading the key table from its other end
hash_castle_rights_all_reversed(z, castle_rights) ==
    BitXor(z, {CASTLE_RIGHTS_KEY(NUM_CASTLE_RIGHTS - 1 - bit_set) : bit_set \in castle_rights})

hash_castle_rights_all(z, castle_rights) == XorCastleKeys(z, cr_iter(castle_rights))

\* hash_castle_rights_single with the two sides' key pairs exchanged
hash_castle_rights_single_swapped(z, side, castle) ==
    LET side_start_idx == IF side = White THEN 0 ELSE 2
        castle_idx == IF castle = Kingside THEN 1 ELSE 0
    IN  ZobristXor(z, CASTLE_RIGHTS_KEY(castle_idx + side_start_idx))

hash_castle_rights_single(z, side, castle) ==
    LET side_start_idx == IF side = White THEN 2 ELSE 0
        castle_idx == IF castle = Kingside THEN 1 ELSE 0
        castle_rights_idx == castle_idx + side_start_idx
    IN  ZobristXor(z, CASTLE_RIGHTS_KEY(castle_rights_idx))

\* for sq in 0..BOARD_SIZE: hash_piece of the piece on sq, if any.  The keys
\* of different squares are different table entries, so XORing them into z
\* one after the other is one symmetric difference with their set.
HashBoard(z, p) ==
    BitXor(z, {PIECES_KEY(at(p, sq).side, at(p, sq).piece_type, sq) :
                 sq \in {s \in 0 .. (BOARD_SIZE - 1) : at(p, s) # NoPiece}})

castle_map == <<Queenside, Kingside>>

RECURSIVE HashRightsFrom(_, _, _)
HashRightsFrom(z, castle_rights, k) ==
    IF k >= 4 THEN z
    ELSE LET side == SIDE_MAP[(k \div 2) + 1]
             castle == castle_map[(k % 2) + 1]
         IN  HashRightsFrom(
                IF can(castle_rights, side, castle)
                THEN hash_castle_rights_single(z, side, castle)
                ELSE z,
                castle_rights, k + 1)

Zobrist_new(p, castle_rights, en_passant, side) ==
    hash_side(
        hash_en_passant(
            HashRightsFrom(HashBoard({}, p), castle_rights, 0),
            en_passant),
        side)

----------------------------------------------------------------------------
(* Characters and strings (Rust char / str operations used by fen.rs) *)

DigitSeq == <<"0", "1", "2", "3", "4", "5", "6", "7", "8", "9">>
Digits == {DigitSeq[i] : i \in 1 .. 10}
\* characters outside ASCII: U+00B2 (superscript two) is numeric but no
\* decimal digit; both take two bytes in UTF-8
NonAsciiNumeric == {"U+00B2"}
NonAscii == {"U+00B2", "U+00E9"}
UpperSeq == <<"A", "B", "C", "D", "E", "F", "G", "H", "I", "J", "K", "L", "M",
              "N", "O", "P", "Q", "R", "S", "T", "U", "V", "W", "X", "Y", "Z">>
LowerSeq == <<"a", "b", "c", "d", "e", "f", "g", "h", "i", "j", "k", "l", "m",
              "n", "o", "p", "q", "r", "s", "t", "u", "v", "w", "x", "y", "z">>
Upper == {UpperSeq[i] : i \in 1 .. 26}

is_numeric(c) == c \in Digits \cup NonAsciiNumeric
\* char::to_digit(10): -1 stands for None
to_digit(c) == IF c \in Digits THEN (CHOOSE d \in 0 .. 9 : DigitSeq[d + 1] = c) ELSE -1
to_lowercase(c) ==
    IF c \in Upper THEN LowerSeq[CHOOSE i \in 1 .. 26 : UpperSeq[i] = c] ELSE c
\* str::len(): the length in bytes
RECURSIVE str_len(_)
str_len(s) ==
    IF s = <<>> THEN 0
    ELSE (IF Head(s) \in NonAscii THEN 2 ELSE 1) + str_len(Tail(s))

\* str::split(' '): always at least one field, empty fields kept
split(s) ==
    LET spaces == {i \in 1 .. Len(s) : s[i] = " "}
        \* the place of the k-th space; 0 before the first field, Len(s)+1 after the last
        cut(k) == IF k = 0 THEN 0
                  ELSE IF k > Cardinality(spaces) THEN Len(s) + 1
                  ELSE CHOOSE i \in spaces : Cardinality({j \in spaces : j <= i}) = k
    IN  [k \in 1 .. (Cardinality(spaces) + 1) |-> SubSeq(s, cut(k - 1) + 1, cut(k) - 1)]

U16_MAX == 65535
\* str::parse::<u16>(): an optional '+', then one or more ASCII digits, the
\* value at most U16_MAX; -1 stands for Err
RECURSIVE DecimalFrom(_, _, _)
DecimalFrom(s, i, acc) ==
    IF i > Len(s) THEN acc
    ELSE IF acc * 10 + to_digit(s[i]) > U16_MAX THEN U16_MAX + 1
    ELSE DecimalFrom(s, i + 1, acc * 10 + to_digit(s[i]))
parse_u16(s) ==
    LET digits == IF s # <<>> /\ Head(s) = "+" THEN Tail(s) ELSE s
    IN  IF digits = <<>> \/ \E i \in 1 .. Len(digits) : digits[i] \notin Digits THEN -1
        ELSE IF DecimalFrom(digits, 1, 0) > U16_MAX THEN -1
        ELSE DecimalFrom(digits, 1, 0)

----------------------------------------------------------------------------
(* fen.rs.  A result is [kind |-> "ok" | "err" | "panic", ...]. *)

PieceType_try_from(c) == c \in PieceTypes
RANKS == {"1", "2", "3", "4", "5", "6", "7", "8"}
FILES == {"a", "b", "c", "d", "e", "f", "g", "h"}
FileSeq == <<"a", "b", "c", "d", "e", "f", "g", "h">>

\* the material of a side: the sum of piece_type.score() over its pieces
MaterialOf(board, side) ==
    LET n(pt) == Cardinality({sq \in Squares : board[sq] = Piece_new(side, pt)})
    IN  n("p") * PieceScore("p") + n("n") * PieceScore("n") + n("b") * PieceScore("b")
        + n("r") * PieceScore("r") + n("q") * PieceScore("q") + n("k") * PieceScore("k")

\* one turn of the loop `for c in fen_board.chars()`; acc carries the locals
\* bb_pieces, bb_sides, board, rank, file and how the turn ended
ParseBoardChar(acc, c) ==
    IF c = "/" THEN [acc EXCEPT !.file = 0, !.rank = @ - 1]
    ELSE IF is_numeric(c) THEN
        IF to_digit(c) = -1 THEN [acc EXCEPT !.kind = "panic"]
        ELSE [acc EXCEPT !.file = @ + to_digit(c)]
    ELSE LET piece_lowercase == to_lowercase(c) IN
        IF ~PieceType_try_from(piece_lowercase) THEN [acc EXCEPT !.kind = "err"]
        ELSE IF acc.rank \notin 0 .. 7 THEN [acc EXCEPT !.kind = "err"]
        ELSE LET sq == Square_from(acc.rank, acc.file)
                 side == IF piece_lowercase = c THEN Black ELSE White
             IN  IF sq \notin Squares THEN [acc EXCEPT !.kind = "panic"]
                 ELSE [acc EXCEPT !.bb_pieces[piece_lowercase] = @ \cup BB_new(sq),
                                  !.bb_sides[side] = @ \cup BB_new(sq),
                                  !.board[sq] = Piece_new(side, piece_lowercase),
                                  !.file = @ + 1]

\* the loop over chars[lo .. hi], left to right, leaving at the first turn
\* that returns; the range is halved to keep the evaluation shallow
RECURSIVE ParseBoardLoop(_, _, _, _)
ParseBoardLoop(chars, lo, hi, acc) ==
    IF lo > hi THEN acc
    ELSE IF lo = hi THEN ParseBoardChar(acc, chars[lo])
    ELSE LET mid == (lo + hi) \div 2
             left == ParseBoardLoop(chars, lo, mid, acc)
         IN  IF left.kind # "ok" THEN left
             ELSE ParseBoardLoop(chars, mid + 1, hi, left)

parse_fen_board(fen_board) ==
    ParseBoardLoop(fen_board, 1, Len(fen_board),
        [kind |-> "ok", bb_sides |-> [s \in Sides |-> EMPTY],
         bb_pieces |-> [pt \in PieceTypes |-> EMPTY], board |-> EmptyBoard,
         rank |-> 7, file |-> 0])

RECURSIVE ParseCastleLoop(_, _, _)
ParseCastleLoop(chars, i, castle_rights) ==
    IF i > Len(chars) THEN [kind |-> "ok", castle_rights |-> castle_rights]
    ELSE LET c == chars[i] IN
         IF c = "K" THEN ParseCastleLoop(chars, i + 1, cr_set(castle_rights, White, Kingside))
         ELSE IF c = "Q" THEN ParseCastleLoop(chars, i + 1, cr_set(castle_rights, White, Queenside))
         ELSE IF c = "k" THEN ParseCastleLoop(chars, i + 1, cr_set(castle_rights, Black, Kingside))
         ELSE IF c = "q" THEN ParseCastleLoop(chars, i + 1, cr_set(castle_rights, Black, Queenside))
         ELSE [kind |-> "err", castle_rights |-> CR_NONE]

parse_fen_castle(fen_castle) ==
    IF fen_castle = <<"-">> THEN [kind |-> "ok", castle_rights |-> CR_NONE]
    ELSE ParseCastleLoop(fen_castle, 1, CR_NONE)

parse_fen_en_passant(fen_en_passant) ==
    IF fen_en_passant = <<"-">> THEN [kind |-> "ok", en_passant |-> NoSquare]
    ELSE IF str_len(fen_en_passant) # 2 THEN [kind |-> "err", en_passant |-> NoSquare]
    ELSE IF Len(fen_en_passant) < 2 THEN [kind |-> "panic", en_passant |-> NoSquare]
    ELSE LET file_char == fen_en_passant[1]
             rank_char == fen_en_passant[2]
         IN  IF rank_char \notin RANKS THEN [kind |-> "err", en_passant |-> NoSquare]
             ELSE IF file_char \notin FILES THEN [kind |-> "err", en_passant |-> NoSquare]
             ELSE LET file == (CHOOSE k \in 1 .. 8 : FileSeq[k] = file_char) - 1
                      rank == to_digit(rank_char) - 1
                  IN  [kind |-> "ok", en_passant |-> Square_from(rank, file)]

State_new(en_passant, side_to_move, castle_rights, halfmoves, fullmoves, zobrist) ==
    [en_passant |-> en_passant, side_to_move |-> side_to_move,
     castle_rights |-> castle_rights, halfmoves |-> halfmoves,
     fullmoves |-> fullmoves, zobrist |-> zobrist]

NoState == State_new(NoSquare, White, CR_NONE, 0, 0, {})
FenFail(kind) == [kind |-> kind, position |-> EmptyPosition, state |-> NoState]

load_fen(fen) ==
    LET fen_state == split(fen)
        n == Len(fen_state)
        b == parse_fen_board(fen_state[1])
    IN
    IF b.kind # "ok" THEN FenFail(b.kind)
    ELSE IF n < 2 THEN FenFail("err")
    ELSE IF fen_state[2] \notin {<<"w">>, <<"b">>} THEN FenFail("err")
    ELSE IF n < 3 THEN FenFail("err")
    ELSE LET c == parse_fen_castle(fen_state[3]) IN
    IF c.kind # "ok" THEN FenFail(c.kind)
    ELSE IF n < 4 THEN FenFail("err")
    ELSE LET e == parse_fen_en_passant(fen_state[4]) IN
    IF e.kind # "ok" THEN FenFail(e.kind)
    ELSE IF n < 5 THEN FenFail("err")
    ELSE IF parse_u16(fen_state[5]) = -1 THEN FenFail("err")
    ELSE IF n < 6 THEN FenFail("err")
    ELSE IF parse_u16(fen_state[6]) = -1 THEN FenFail("err")
    ELSE LET side_to_move == IF fen_state[2] = <<"w">> THEN White ELSE Black
             position == [bb_sides |-> b.bb_sides, bb_pieces |-> b.bb_pieces,
                          board |-> b.board,
                          score |-> [s \in Sides |-> MaterialOf(b.board, s)]]
         IN  [kind |-> "ok",
              position |-> position,
              state |-> State_new(e.en_passant, side_to_move, c.castle_rights,
                                  parse_u16(fen_state[5]), parse_u16(fen_state[6]),
                                  Zobrist_new(position, c.castle_rights, e.en_passant,
                                              side_to_move))]

----------------------------------------------------------------------------
(* Moves (mv): a tagged variant; EncodedMove carries from, to, piece type   *)
(* and the capture flag, a promotion also the piece promoted to            *)

MoveTags == {"King", "Rook", "Pawn", "Piece", "DoublePawnPush", "Castle",
             "EnPassant", "Promotion"}
Move_new(tag, from, to, pt, capture, promote) ==
    [tag |-> tag, from |-> from, to |-> to, piece_type |-> pt,
     capture |-> capture, promote |-> promote]
NoMove == Move_new("-", NoSquare, NoSquare, "-", FALSE, "-")
PromotePieces == <<"n", "b", "r", "q">>

OnBoard(f, r) == f \in 0 .. 7 /\ r \in 0 .. 7
Shift(sq, df, dr) ==
    IF OnBoard(file_of(sq) + df, rank_of(sq) + dr)
    THEN {Square_from(rank_of(sq) + dr, file_of(sq) + df)} ELSE {}

----------------------------------------------------------------------------
(* Attack sets (attack tables, move_gen::is_sq_attacked) *)

KnightDirs == {<<1, 2>>, <<2, 1>>, <<2, -1>>, <<1, -2>>,
               <<-1, -2>>, <<-2, -1>>, <<-2, 1>>, <<-1, 2>>}
BishopDirs == {<<1, 1>>, <<1, -1>>, <<-1, -1>>, <<-1, 1>>}
RookDirs == {<<1, 0>>, <<-1, 0>>, <<0, 1>>, <<0, -1>>}
KingDirs == BishopDirs \cup RookDirs
forward(side) == IF side = White THEN 1 ELSE -1

KNIGHT_JUMPS(sq) == UNION {Shift(sq, d[1], d[2]) : d \in KnightDirs}
KING_MOVES(sq) == UNION {Shift(sq, d[1], d[2]) : d \in KingDirs}
PAWN_CAPTURES(side, sq) == Shift(sq, 1, forward(side)) \cup Shift(sq, -1, forward(side))

\* the squares of a ray from sq up to and including the first blocker
RECURSIVE Ray(_, _, _, _)
Ray(sq, df, dr, occ) ==
    LET n == Shift(sq, df, dr)
    IN  IF n = {} THEN {}
        ELSE IF n \subseteq occ THEN n
        ELSE n \cup Ray(Min(n), df, dr, occ)

slider_attacks(dirs, sq, occ) == UNION {Ray(sq, d[1], d[2], occ) : d \in dirs}

attacks(pt, side, sq, occ) ==
    CASE pt = "p" -> PAWN_CAPTURES(side, sq)
      [] pt = "n" -> KNIGHT_JUMPS(sq)
      [] pt = "k" -> KING_MOVES(sq)
      [] pt = "b" -> slider_attacks(BishopDirs, sq, occ)
      [] pt = "r" -> slider_attacks(RookDirs, sq, occ)
      [] OTHER -> slider_attacks(KingDirs, sq, occ)

is_sq_attacked(p, sq, by_side) ==
    \E s \in p.bb_sides[by_side] :
        sq \in attacks(p.board[s].piece_type, by_side, s, bb_occupied(p))

in_check(p, side) == is_sq_attacked(p, king_sq(p, side), opposite(side))

----------------------------------------------------------------------------
(* Game: make / unmake *)

en_passant_victim(side, to) == to - forward(side) * NUM_FILES
\* rook corners: [side][castle]
rook_corner(side, castle) ==
    IF side = White THEN (IF castle = Kingside THEN 7 ELSE 0)
    ELSE (IF castle = Kingside THEN 63 ELSE 56)
castle_of(mv) == IF file_of(mv.to) > file_of(mv.from) THEN Kingside ELSE Queenside
castle_rook_to(mv) == IF castle_of(mv) = Kingside THEN mv.to - 1 ELSE mv.to + 1

\* what a move takes: the piece on the target square, or the pawn passed
captured_by(p, side, mv) ==
    IF mv.tag = "EnPassant" THEN at(p, en_passant_victim(side, mv.to))
    ELSE IF mv.capture THEN at(p, mv.to)
    ELSE NoPiece

\* the Position part of make_move
apply_move(p, side, mv) ==
    LET p1 == IF mv.tag = "EnPassant"
              THEN remove_piece(p, "p", en_passant_victim(side, mv.to), opposite(side))
              ELSE IF mv.capture THEN remove_at(p, mv.to)
              ELSE p
        p2 == move_piece(p1, mv.piece_type, mv.from, mv.to, side)
    IN  IF mv.tag = "Promotion"
        THEN place_piece(remove_piece(p2, "p", mv.to, side), mv.promote, mv.to, side)
        ELSE IF mv.tag = "Castle"
        THEN move_piece(p2, "r", rook_corner(side, castle_of(mv)), castle_rook_to(mv), side)
        ELSE p2

\* the Position part of unmake_move
revert_move(p, side, mv, capture) ==
    LET p1 == IF mv.tag = "Promotion"
              THEN place_piece(remove_piece(p, mv.promote, mv.to, side), "p", mv.to, side)
              ELSE IF mv.tag = "Castle"
              THEN move_piece(p, "r", castle_rook_to(mv), rook_corner(side, castle_of(mv)), side)
              ELSE p
        p2 == move_piece(p1, mv.piece_type, mv.to, mv.from, side)
    IN  IF capture = NoPiece THEN p2
        ELSE IF mv.tag = "EnPassant"
        THEN place_piece(p2, "p", en_passant_victim(side, mv.to), opposite(side))
        ELSE place_piece(p2, capture.piece_type, mv.to, capture.side)

rights_after(cr, side, mv, capture) ==
    LET opp == opposite(side)
        c1 == IF capture.piece_type = "r" /\ mv.tag # "EnPassant"
              THEN (IF mv.to = rook_corner(opp, Kingside) THEN remove_rights(cr, opp, Kingside)
                    ELSE IF mv.to = rook_corner(opp, Queenside)
                    THEN remove_rights(cr, opp, Queenside)
                    ELSE cr)
              ELSE cr
    IN  IF mv.tag \in {"King", "Castle"} THEN remove_rights_for_color(c1, side)
        ELSE IF mv.tag = "Rook"
        THEN (IF mv.from = rook_corner(side, Kingside) THEN remove_rights(c1, side, Kingside)
              ELSE IF mv.from = rook_corner(side, Queenside)
              THEN remove_rights(c1, side, Queenside)
              ELSE c1)
        ELSE c1

\* the Zobrist part of make_move: the pieces taken, moved and placed
hash_move(z, side, mv, capture) ==
    LET z1 == IF capture = NoPiece THEN z
              ELSE IF mv.tag = "EnPassant"
              THEN hash_piece(z, opposite(side), "p", en_passant_victim(side, mv.to))
              ELSE hash_piece(z, capture.side, capture.piece_type, mv.to)
        z2 == hash_piece(hash_piece(z1, side, mv.piece_type, mv.from),
                         side, mv.piece_type, mv.to)
    IN  IF mv.tag = "Promotion"
        THEN hash_piece(hash_piece(z2, side, "p", mv.to), side, mv.promote, mv.to)
        ELSE IF mv.tag = "Castle"
        THEN hash_piece(hash_piece(z2, side, "r", rook_corner(side, castle_of(mv))),
                        side, "r", castle_rook_to(mv))
        ELSE z2

\* make_move: the game after the move; the piece taken is captured_by
make_move(g, mv) ==
    LET st == g.state
        side == st.side_to_move
        capture == captured_by(g.position, side, mv)
        z0 == hash_side(hash_castle_rights_all(hash_en_passant(st.zobrist, st.en_passant),
                                               st.castle_rights), side)
        new_ep == IF mv.tag = "DoublePawnPush" THEN mv.from + forward(side) * NUM_FILES
                  ELSE NoSquare
        new_cr == rights_after(st.castle_rights, side, mv, capture)
        z1 == hash_move(hash_en_passant(z0, new_ep), side, mv, capture)
        z2 == hash_side(hash_castle_rights_all(z1, new_cr), opposite(side))
    IN  [position |-> apply_move(g.position, side, mv),
         state |-> State_new(
             new_ep, opposite(side), new_cr,
             IF mv.piece_type = "p" \/ capture # NoPiece THEN 0 ELSE st.halfmoves + 1,
             IF side = Black THEN st.fullmoves + 1 ELSE st.fullmoves,
             z2),
         history |-> Append(g.history, st.zobrist)]

unmake_move(g, mv, capture, prev_state) ==
    [position |-> revert_move(g.position, prev_state.side_to_move, mv, capture),
     state |-> prev_state,
     history |-> SubSeq(g.history, 1, Len(g.history) - 1)]

make_null_move(g) ==
    LET st == g.state
    IN  [g EXCEPT !.state.en_passant = NoSquare,
                  !.state.side_to_move = opposite(st.side_to_move),
                  !.state.zobrist =
                      hash_side(hash_side(hash_en_passant(st.zobrist, st.en_passant),
                                          st.side_to_move),
                                opposite(st.side_to_move))]

unmake_null_move(g, en_passant) ==
    LET st == g.state
    IN  [g EXCEPT !.state.en_passant = en_passant,
                  !.state.side_to_move = opposite(st.side_to_move),
                  !.state.zobrist =
                      hash_en_passant(hash_side(hash_side(st.zobrist, st.side_to_move),
                                                opposite(st.side_to_move)),
                                      en_passant)]

\* threefold repetition since the last irreversible move, the 50-move rule,
\* insufficient material
repetitions(g) ==
    LET n == Len(g.history)
        first == IF g.state.halfmoves >= n THEN 1 ELSE n - g.state.halfmoves + 1
    IN  1 + Cardinality({i \in first .. n : g.history[i] = g.state.zobrist})
FIFTY_MOVE_HALFMOVES == 100
is_draw(g) ==
    \/ repetitions(g) >= 3
    \/ g.state.halfmoves >= FIFTY_MOVE_HALFMOVES
    \/ insufficient_material(g.position)

Game_from_fen(fen) ==
    LET r == load_fen(fen)
    IN  [position |-> r.position, state |-> r.state, history |-> <<>>]

----------------------------------------------------------------------------
(* Move generation (move_gen) and the legality check *)

last_rank(side) == IF side = White THEN 7 ELSE 0
start_rank(side) == IF side = White THEN 1 ELSE 6
king_home(side) == IF side = White THEN 4 ELSE 60

promotions(from, to, capture) ==
    {Move_new("Promotion", from, to, "p", capture, PromotePieces[k]) : k \in 1 .. 4}

pawn_moves(g, side, sq) ==
    LET p == g.position
        occ == bb_occupied(p)
        enemy == p.bb_sides[opposite(side)]
        one == Shift(sq, 0, forward(side)) \ occ
        two == IF one # {} /\ rank_of(sq) = start_rank(side)
               THEN Shift(sq, 0, 2 * forward(side)) \ occ ELSE {}
        caps == PAWN_CAPTURES(side, sq) \cap enemy
        eps == PAWN_CAPTURES(side, sq) \cap {g.state.en_passant}
    IN  UNION {IF rank_of(t) = last_rank(side) THEN promotions(sq, t, FALSE)
               ELSE {Move_new("Pawn", sq, t, "p", FALSE, "-")} : t \in one}
        \cup {Move_new("DoublePawnPush", sq, t, "p", FALSE, "-") : t \in two}
        \cup UNION {IF rank_of(t) = last_rank(side) THEN promotions(sq, t, TRUE)
                    ELSE {Move_new("Pawn", sq, t, "p", TRUE, "-")} : t \in caps}
        \cup {Move_new("EnPassant", sq, t, "p", TRUE, "-") : t \in eps}

castle_path(side, castle) ==
    IF castle = Kingside THEN {king_home(side) + 1, king_home(side) + 2}
    ELSE {king_home(side) - 1, king_home(side) - 2}
castle_between(side, castle) ==
    IF castle = Kingside THEN {king_home(side) + 1, king_home(side) + 2}
    ELSE {king_home(side) - 1, king_home(side) - 2, king_home(side) - 3}

castle_moves(g, side) ==
    LET p == g.position
    IN  {Move_new("Castle", king_home(side),
                  IF c = Kingside THEN king_home(side) + 2 ELSE king_home(side) - 2,
                  "k", FALSE, "-") :
            c \in {c \in Castles :
                     /\ can(g.state.castle_rights, side, c)
                     /\ at(p, king_home(side)) = Piece_new(side, "k")
                     /\ at(p, rook_corner(side, c)) = Piece_new(side, "r")
                     /\ castle_between(side, c) \cap bb_occupied(p) = {}
                     /\ ~is_sq_attacked(p, king_home(side), opposite(side))
                     /\ \A s \in castle_path(side, c) :
                            ~is_sq_attacked(p, s, opposite(side))}}

piece_moves(g, side, sq) ==
    LET p == g.position
        pt == at(p, sq).piece_type
        enemy == p.bb_sides[opposite(side)]
        tag == IF pt = "k" THEN "King" ELSE IF pt = "r" THEN "Rook" ELSE "Piece"
    IN  {Move_new(tag, sq, t, pt, t \in enemy, "-") :
            t \in attacks(pt, side, sq, bb_occupied(p)) \ p.bb_sides[side]}

move_set(g, side) ==
    UNION {IF at(g.position, sq).piece_type = "p" THEN pawn_moves(g, side, sq)
           ELSE piece_moves(g, side, sq) : sq \in g.position.bb_sides[side]}
    \cup castle_moves(g, side)

\* the order of a generated list: by from-square, to-square, promotion piece
move_key(mv) ==
    (mv.from * BOARD_LENGTH + mv.to) * 8
    + (IF mv.promote = "-" THEN 0 ELSE to_usize(mv.promote))
move_list_of(S) ==
    LET place == [m \in S |-> Cardinality({y \in S : move_key(y) < move_key(m)})]
    IN  [k \in 1 .. Cardinality(S) |-> CHOOSE m \in S : place[m] = k - 1]

is_legal(g, mv) ==
    ~in_check(apply_move(g.position, g.state.side_to_move, mv), g.state.side_to_move)

is_loud(mv) == mv.capture \/ mv.tag = "Promotion"

pseudo_legal_moves(g, side) == move_list_of(move_set(g, side))
pseudo_legal_escape_moves(g, side) ==
    move_list_of({m \in move_set(g, side) : m.tag = "King" \/ is_legal(g, m)})
pseudo_legal_loud_moves(g, side) ==
    move_list_of({m \in move_set(g, side) : is_loud(m)})

legal_moves(g) == {m \in move_set(g, g.state.side_to_move) : is_legal(g, m)}

----------------------------------------------------------------------------
(* A game driven through its API the way the search drives it: the caller  *)
(* keeps state().encode() and the piece make_move returned, and hands them *)
(* back to unmake_move; null moves are made only when not in check.        *)

\* castling both ways for both sides
FenCastles ==
    <<"r", "3", "k", "2", "r", "/", "8", "/", "8", "/", "8", "/", "8", "/",
      "8", "/", "8", "/", "R", "3", "K", "2", "R", " ", "w", " ", "K", "Q",
      "k", "q", " ", "-", " ", "0", " ", "1">>
\* a promotion with and without capture, a double push answered en passant
FenPawns ==
    <<"1", "n", "2", "k", "3", "/", "P", "6", "p", "/", "8", "/", "6", "P",
      "1", "/", "8", "/", "8", "/", "8", "/", "4", "K", "3", " ", "b", " ",
      "-", " ", "-", " ", "0", " ", "1">>
\* captures, a rook leaving its corner, a double push next to an enemy pawn
FenMixed ==
    <<"4", "k", "3", "/", "8", "/", "8", "/", "8", "/", "2", "p", "5", "/",
      "8", "/", "1", "P", "1", "P", "4", "/", "4", "K", "2", "R", " ", "w",
      " ", "K", " ", "-", " ", "3", " ", "9">>
GameFens == <<FenCastles, FenPawns, FenMixed>>

MaxPlies == 2

Idle == [op |-> "-"]

InitGame ==
    /\ \E i \in 1 .. Len(GameFens) :
          /\ game = Game_from_fen(GameFens[i])
          /\ io = [fen |-> GameFens[i]]
    /\ finder = <<>>
    /\ stack = <<>>
    /\ ret = Idle
    /\ obs = <<>>

MakeMove(mv) ==
    /\ Len(stack) < MaxPlies
    /\ is_legal(game, mv)
    /\ game' = make_move(game, mv)
    /\ stack' = Append(stack,
                    [op |-> "make_move", mv |-> mv,
                     capture |-> captured_by(game.position, game.state.side_to_move, mv),
                     prev_state |-> game.state, before |-> game])
    /\ ret' = [op |-> "make_move", mv |-> mv, before |-> game]
    /\ UNCHANGED <<finder, obs, io>>

UnmakeMove ==
    /\ stack # <<>>
    /\ stack[Len(stack)].op = "make_move"
    /\ LET top == stack[Len(stack)]
       IN  /\ game' = unmake_move(game, top.mv, top.capture, top.prev_state)
           /\ ret' = [op |-> "unmake_move", mv |-> top.mv, before |-> top.before]
    /\ stack' = SubSeq(stack, 1, Len(stack) - 1)
    /\ UNCHANGED <<finder, obs, io>>

MakeNullMove ==
    /\ Len(stack) < MaxPlies
    /\ ~in_check(game.position, game.state.side_to_move)
    /\ game' = make_null_move(game)
    /\ stack' = Append(stack, [op |-> "make_null_move",
                               en_passant |-> game.state.en_passant, before |-> game])
    /\ ret' = [op |-> "make_null_move", mv |-> NoMove, before |-> game]
    /\ UNCHANGED <<finder, obs, io>>

UnmakeNullMove ==
    /\ stack # <<>>
    /\ stack[Len(stack)].op = "make_null_move"
    /\ LET top == stack[Len(stack)]
       IN  /\ game' = unmake_null_move(game, top.en_passant)
           /\ ret' = [op |-> "unmake_null_move", mv |-> NoMove, before |-> top.before]
    /\ stack' = SubSeq(stack, 1, Len(stack) - 1)
    /\ UNCHANGED <<finder, obs, io>>

NextGame ==
    \/ \E mv \in move_set(game, game.state.side_to_move) : MakeMove(mv)
    \/ UnmakeMove
    \/ MakeNullMove
    \/ UnmakeNullMove

SpecGame == InitGame /\ [][NextGame]_vars

\* C1: once unmake_move(m, captured, saved_state) has undone make_move(m) of a
\* legal move m, the game is exactly the game before the make: side and piece
\* bitboards, mailbox, material score, castle rights, en-passant square, side
\* to move, halfmove and fullmove counters and the Zobrist key.
C1_UnmakeRestoresGame ==
    ret.op = "unmake_move" =>
        /\ game.position.bb_sides = ret.before.position.bb_sides
        /\ game.position.bb_pieces = ret.before.position.bb_pieces
        /\ game.position.board = ret.before.position.board
        /\ game.position.score = ret.before.position.score
        /\ game.state = ret.before.state
        /\ game = ret.before

\* an en-passant capture made and taken back, the second move of the line
C1_Witness ==
    /\ ret.op = "unmake_move"
    /\ ret.mv.tag = "EnPassant"
    /\ Len(stack) = 1
    /\ game = ret.before

\* C2: after any sequence of make_move, unmake_move, make_null_move and
\* unmake_null_move from a FEN-loaded game, the incrementally kept Zobrist key
\* equals the key Zobrist::new computes from the current position, castle
\* rights, en-passant square and side to move.
C2_ZobristIsFromScratch ==
    game.state.zobrist =
        Zobrist_new(game.position, game.state.castle_rights,
                    game.state.en_passant, game.state.side_to_move)

\* a castle made after a null move: rights dropped, side key and rook hashed
C2_Witness ==
    /\ Len(stack) = 2
    /\ stack[1].op = "make_null_move"
    /\ ret.op = "make_move"
    /\ ret.mv.tag = "Castle"
    /\ game.state.zobrist # ret.before.state.zobrist
    /\ C2_ZobristIsFromScratch

----------------------------------------------------------------------------
(* A Position driven through place_piece, remove_piece, remove_at and      *)
(* move_piece within their preconditions, and asked insufficient_material. *)

FenKings ==
    <<"4", "k", "3", "/", "8", "/", "8", "/", "8", "/", "8", "/", "8", "/", "8", "/", "4", "K", "3", " ", "w", " ", "-", " ", "-", " ", "0", " ", "1">>
\* where the kings stand in FenKings, and three more squares: a1 and c1 dark,
\* b1 light
KingSquares == {4, 60}
PosSquares == {0, 1, 2}
PosPieces ==
    {Piece_new(White, "k"), Piece_new(Black, "k"),
     Piece_new(White, "b"), Piece_new(Black, "b"),
     Piece_new(White, "n"), Piece_new(Black, "n"),
     Piece_new(White, "p"), Piece_new(Black, "r"), Piece_new(White, "q")}
SquaresFor(pc) == IF pc.piece_type = "k" THEN KingSquares ELSE PosSquares
MaxPieces == 4

InitPos ==
    /\ game = Game_from_fen(FenKings)
    /\ io = [fen |-> FenKings]
    /\ finder = <<>>
    /\ stack = <<>>
    /\ ret = Idle
    /\ obs = <<>>

SetPosition(p) == game' = [game EXCEPT !.position = p]

PlacePiece(pc, to) ==
    /\ count_ones(bb_occupied(game.position)) < MaxPieces
    /\ at(game.position, to) = NoPiece
    /\ SetPosition(place_piece(game.position, pc.piece_type, to, pc.side))
    /\ ret' = Idle
    /\ UNCHANGED <<finder, stack, obs, io>>

RemovePiece(from) ==
    /\ at(game.position, from) # NoPiece
    /\ LET pc == at(game.position, from)
       IN  SetPosition(remove_piece(game.position, pc.piece_type, from, pc.side))
    /\ ret' = Idle
    /\ UNCHANGED <<finder, stack, obs, io>>

RemoveAt(sq) ==
    /\ SetPosition(remove_at(game.position, sq))
    /\ ret' = [op |-> "remove_at", value |-> at(game.position, sq)]
    /\ UNCHANGED <<finder, stack, obs, io>>

MovePiece(from, to) ==
    /\ at(game.position, from) # NoPiece
    /\ at(game.position, to) = NoPiece
    /\ to \in SquaresFor(at(game.position, from))
    /\ LET pc == at(game.position, from)
       IN  SetPosition(move_piece(game.position, pc.piece_type, from, to, pc.side))
    /\ ret' = Idle
    /\ UNCHANGED <<finder, stack, obs, io>>

InsufficientMaterial ==
    /\ ret' = [op |-> "insufficient_material",
               value |-> insufficient_material(game.position)]
    /\ UNCHANGED <<game, finder, stack, obs, io>>

NextPos ==
    \/ \E pc \in PosPieces : \E to \in SquaresFor(pc) : PlacePiece(pc, to)
    \/ \E from \in KingSquares \cup PosSquares : RemovePiece(from)
    \/ \E sq \in KingSquares \cup PosSquares : RemoveAt(sq)
    \/ \E from, to \in KingSquares \cup PosSquares : MovePiece(from, to)
    \/ InsufficientMaterial

SpecPos == InitPos /\ [][NextPos]_vars

\* the pieces of a side on the board, by the mailbox
PiecesOf(p, side, pt) == {sq \in Squares : at(p, sq) = Piece_new(side, pt)}

\* C3: from a consistent Position, place_piece on an empty square,
\* remove_piece of the piece standing on the square and move_piece keep the
\* side bitboards disjoint, the union of the piece bitboards equal to the
\* union of the side bitboards, board[sq] = Some(side, type) exactly when sq
\* is in that side's and that type's bitboard, and score[s] the sum of the
\* scores of the pieces of s, never below zero.
C3_PositionConsistent ==
    LET p == game.position
    IN  /\ p.bb_sides[White] \cap p.bb_sides[Black] = {}
        /\ UNION {p.bb_pieces[pt] : pt \in PieceTypes} = bb_occupied(p)
        /\ \A sq \in Squares : \A side \in Sides : \A pt \in PieceTypes :
               (at(p, sq) = Piece_new(side, pt))
                   <=> (sq \in p.bb_sides[side] /\ sq \in p.bb_pieces[pt])
        /\ \A sq \in Squares :
               at(p, sq) = NoPiece <=> sq \notin bb_occupied(p)
        /\ \A side \in Sides :
               /\ p.score[side] >= 0
               /\ p.score[side] =
                      PieceScore("p") * Cardinality(PiecesOf(p, side, "p"))
                      + PieceScore("n") * Cardinality(PiecesOf(p, side, "n"))
                      + PieceScore("b") * Cardinality(PiecesOf(p, side, "b"))
                      + PieceScore("r") * Cardinality(PiecesOf(p, side, "r"))
                      + PieceScore("q") * Cardinality(PiecesOf(p, side, "q"))
                      + PieceScore("k") * Cardinality(PiecesOf(p, side, "k"))

\* a position that was built by placing, moving and removing: a king gone, a
\* white queen and a black rook put next to a bishop
C3_Witness ==
    /\ at(game.position, 4) = NoPiece
    /\ at(game.position, 0) = Piece_new(White, "q")
    /\ at(game.position, 1) = Piece_new(Black, "r")
    /\ at(game.position, 2) = Piece_new(Black, "b")
    /\ game.position.score = [w |-> 900, b |-> 810]

\* the squares of the pieces that are no kings
NonKings(p) == {sq \in Squares : at(p, sq) # NoPiece /\ at(p, sq).piece_type # "k"}

\* C8: with one king a side, insufficient_material() is true exactly for K vs
\* K, K+B vs K, K+N vs K, and K+B vs K+B with the two bishops on squares of
\* one colour; it is false for every other piece set.
C8_InsufficientMaterialSets ==
    LET p == game.position
        others == NonKings(p)
    IN  (/\ ret.op = "insufficient_material"
         /\ \A side \in Sides : Cardinality(PiecesOf(p, side, "k")) = 1)
        => (ret.value <=>
              \/ others = {}
              \/ /\ Cardinality(others) = 1
                 /\ \A sq \in others : at(p, sq).piece_type \in {"b", "n"}
              \/ /\ Cardinality(others) = 2
                 /\ \A sq \in others : at(p, sq).piece_type = "b"
                 /\ \E s1, s2 \in others :
                       /\ at(p, s1).side = White
                       /\ at(p, s2).side = Black
                       /\ is_light_sq(s1) = is_light_sq(s2))

\* K+B vs K+B, both bishops on dark squares, found insufficient
C8_Witness ==
    /\ ret.op = "insufficient_material"
    /\ ret.value
    /\ at(game.position, 4) = Piece_new(White, "k")
    /\ at(game.position, 60) = Piece_new(Black, "k")
    /\ at(game.position, 0) = Piece_new(White, "b")
    /\ at(game.position, 2) = Piece_new(Black, "b")
    /\ at(game.position, 1) = NoPiece

----------------------------------------------------------------------------
(* load_fen fed texts put together from six fields, or fewer *)

\* two kings; a letter that is no piece; a numeric character that is no
\* digit; nine files on the eighth rank; nine files on the seventh rank; no
\* black king; nine ranks
FenBoards ==
    {<<"4", "k", "3", "/", "8", "/", "8", "/", "8", "/", "8", "/", "8", "/", "8", "/", "4", "K", "3">>,
     <<"4", "k", "3", "/", "8", "/", "8", "/", "8", "/", "8", "/", "8", "/", "8", "/", "4", "X", "3">>,
     <<"4", "k", "3", "/", "8", "/", "8", "/", "8", "/", "8", "/", "8", "/", "8", "/", "4", "K", "U+00B2", "2">>,
     <<"9", "k", "/", "8", "/", "8", "/", "8", "/", "8", "/", "8", "/", "8", "/", "4", "K", "3">>,
     <<"k", "7", "/", "7", "p", "P", "/", "8", "/", "8", "/", "8", "/", "8", "/", "8", "/", "4", "K", "3">>,
     <<"8", "/", "8", "/", "8", "/", "8", "/", "8", "/", "8", "/", "8", "/", "4", "K", "3">>,
     <<"4", "k", "3", "/", "8", "/", "8", "/", "8", "/", "8", "/", "8", "/", "8", "/", "4", "K", "3", "/", "8">>}
FenSides == {<<"w">>, <<"b">>, <<"x">>}
FenCastleFields == {<<"-">>, <<"K", "Q", "k", "q">>, <<"K", "x">>}
\* none, e3, a rank and a file off the board, one and three characters, one
\* character of two bytes, three bytes
FenEnPassants ==
    {<<"-">>, <<"e", "3">>, <<"a", "9">>, <<"i", "3">>, <<"e">>,
     <<"e", "3", "3">>, <<"U+00E9">>, <<"U+00E9", "3">>}
FenCounters == {<<"0">>, <<"4", "2">>, <<"x">>, <<"6", "5", "5", "3", "6">>, <<>>}
MaxFields == 6

RECURSIVE join(_)
join(fields) ==
    IF Len(fields) = 0 THEN <<>>
    ELSE IF Len(fields) = 1 THEN fields[1]
    ELSE fields[1] \o <<" ">> \o join(Tail(fields))

FenInputs ==
    {join(SubSeq(<<b, s, c, e, h, f, <<"1">>, <<"1">>>>, 1, Min({n, 8}))) :
        b \in FenBoards, s \in FenSides, c \in FenCastleFields,
        e \in FenEnPassants, h \in FenCounters, f \in {<<"1">>, <<"x">>},
        n \in 0 .. MaxFields}

NoGame == [position |-> EmptyPosition, state |-> NoState, history |-> <<>>]

InitFen ==
    /\ game = NoGame
    /\ \E fen \in FenInputs : io = [fen |-> fen]
    /\ finder = <<>>
    /\ stack = <<>>
    /\ ret = Idle
    /\ obs = <<>>

\* a caller of load_fen: the game is replaced when the result is Ok
LoadFen ==
    /\ ret = Idle
    /\ LET r == load_fen(io.fen)
       IN  /\ ret' = [op |-> "load_fen", kind |-> r.kind]
           /\ game' = IF r.kind = "ok"
                      THEN [position |-> r.position, state |-> r.state, history |-> <<>>]
                      ELSE game
    /\ UNCHANGED <<finder, stack, obs, io>>

NextFen == LoadFen

SpecFen == InitFen /\ [][NextFen]_vars

PieceLetters == PieceTypes \cup {"P", "N", "B", "R", "Q", "K"}
\* the field after the optional sign is one or more decimal digits
IsNumberText(f) ==
    LET digits == IF f # <<>> /\ Head(f) = "+" THEN Tail(f) ELSE f
    IN  digits # <<>> /\ \A i \in 1 .. Len(digits) : digits[i] \in Digits
\* the defects of a FEN text that load_fen is to report
FenDefect(fen) ==
    LET fs == split(fen)
        n == Len(fs)
    IN  \/ n < 6
        \/ \E i \in 1 .. Len(fs[1]) : fs[1][i] \notin PieceLetters \cup Digits \cup {"/"}
        \/ n >= 2 /\ fs[2] \notin {<<"w">>, <<"b">>}
        \/ n >= 3 /\ fs[3] # <<"-">>
                  /\ \E i \in 1 .. Len(fs[3]) : fs[3][i] \notin {"K", "Q", "k", "q"}
        \/ n >= 4 /\ fs[4] # <<"-">>
                  /\ ~(Len(fs[4]) = 2 /\ fs[4][1] \in FILES /\ fs[4][2] \in RANKS)
        \/ n >= 5 /\ ~IsNumberText(fs[5])
        \/ n >= 6 /\ ~IsNumberText(fs[6])

\* C10: load_fen returns an Err, without panicking and without producing a
\* Position or State, whenever the text has fewer than six fields, a piece
\* letter that is no piece, a side to move other than w or b, a castle field
\* with a character outside KQkq (and not "-"), a malformed en-passant square,
\* or a halfmove or fullmove field that is not a number.
C10_LoadFenReportsDefects ==
    (ret.op = "load_fen" /\ FenDefect(io.fen)) => ret.kind = "err"

\* the rank that the character at index j of a board field belongs to
RankAt(b, j) == 7 - Cardinality({k \in 1 .. j : b[k] = "/"})
\* the files that the characters of rank r describe: pieces plus empty runs
RECURSIVE EmptyRuns(_, _, _)
EmptyRuns(b, r, d) ==
    IF d = 0 THEN 0
    ELSE d * Cardinality({j \in 1 .. Len(b) : RankAt(b, j) = r /\ b[j] = DigitSeq[d + 1]})
         + EmptyRuns(b, r, d - 1)
LettersOf(b, r) == {j \in 1 .. Len(b) : RankAt(b, j) = r /\ b[j] \in PieceLetters}
FilesOf(b, r) == Cardinality(LettersOf(b, r)) + EmptyRuns(b, r, 9)
BoardOverflows(b) ==
    \/ RankAt(b, Len(b)) < 0
    \/ \E r \in 0 .. 7 : FilesOf(b, r) > 8

\* C11: a board field with more than 8 files in a rank or more than 8 ranks
\* is rejected with an Err; and a board that is accepted holds, on every
\* rank, as many pieces as the text of that rank names, so that no piece
\* went to another rank or onto a square that held a piece.
C11_BoardStaysInRanks ==
    ret.op = "load_fen" =>
        LET b == split(io.fen)[1]
        IN  /\ BoardOverflows(b) => ret.kind = "err"
            /\ ret.kind = "ok" =>
                   \A r \in 0 .. 7 :
                       Cardinality({sq \in Squares : rank_of(sq) = r
                                       /\ at(game.position, sq) # NoPiece})
                           = Cardinality(LettersOf(b, r))

\* the kings of a side, by the bitboards
KingsOf(p, side) == bb_pc(p, "k", side)

\* C12: every Position that load_fen returns as Ok has exactly one king a
\* side, so that king_sq is a square of the board for both.
C12_LoadedPositionHasKings ==
    (ret.op = "load_fen" /\ ret.kind = "ok") =>
        \A side \in Sides :
            /\ Cardinality(KingsOf(game.position, side)) = 1
            /\ king_sq(game.position, side) \in Squares

----------------------------------------------------------------------------
(* search.rs: constants, transposition table, killer moves, move ordering *)

DEFAULT_DEPTH == 7
DEFAULT_MAX_DEPTH == 12
R == 2
TT_MOVE_SORT_VAL == 60
KILLER_MOVE_1_SORT_VAL == 9
KILLER_MOVE_2_SORT_VAL == 8
\* the table of search.rs, a row for each victim, a column for each attacker
MVV_LVA_TABLE ==
    <<<<15, 14, 13, 12, 11, 10>>,
      <<25, 24, 23, 22, 21, 20>>,
      <<35, 34, 33, 32, 31, 30>>,
      <<45, 44, 43, 42, 41, 40>>,
      <<55, 54, 53, 52, 51, 50>>,
      <<0, 0, 0, 0, 0, 0>>>>

\* the table read with the attacker for the row
MVV_LVA_by_attacker(victim, attacker) ==
    MVV_LVA_TABLE[to_usize(attacker) + 1][to_usize(victim) + 1]

MVV_LVA(victim, attacker) == MVV_LVA_TABLE[to_usize(victim) + 1][to_usize(attacker) + 1]

\* eval: the mate score, the draw score of a phase, the static evaluation
\* from the side to move's point of view (material)
MAX_EVAL == 100000
DRAW_SCORE_get(position) == 0
eval(g) ==
    g.position.score[g.state.side_to_move]
    - g.position.score[opposite(g.state.side_to_move)]

\* TtFlag
Exact == "Exact"
Alpha == "Alpha"
Beta == "Beta"
TtDetails_new == [flag |-> Alpha, mv |-> NoMove, eval |-> -MAX_EVAL]
TtDetails_from(flag, mv, e) == [flag |-> flag, mv |-> mv, eval |-> e]

\* tt: the entries by key, and the age of the running search.  An entry
\* also remembers the ply of the node that stored it; the program keeps no
\* such field, nothing the program does reads it.
TranspositionTable_new == [entries |-> <<>>, age |-> 0]
tt_find(tt, key) ==
    LET hits == {k \in 1 .. Len(tt.entries) : tt.entries[k].key = key}
    IN  IF hits = {} THEN 0 ELSE CHOOSE k \in hits : TRUE
tt_update_age(tt) == [tt EXCEPT !.age = @ + 1]
NoVal == [hit |-> FALSE, val |-> 0, ply |-> 0]
tt_probe_val(tt, key, depth, alpha, beta) ==
    LET k == tt_find(tt, key)
    IN  IF k = 0 THEN NoVal
        ELSE LET e == tt.entries[k]
                 usable == /\ e.depth >= depth
                           /\ \/ e.flag = Exact
                              \/ e.flag = Beta /\ e.eval >= beta
                              \/ e.flag = Alpha /\ e.eval <= alpha
             IN  IF usable THEN [hit |-> TRUE, val |-> e.eval, ply |-> e.ply] ELSE NoVal
tt_probe_move(tt, key, depth) ==
    LET k == tt_find(tt, key)
    IN  IF k = 0 THEN NoMove ELSE tt.entries[k].mv
\* replace if deeper or of an older generation
tt_store(tt, key, depth, flag, e, mv, ply) ==
    LET k == tt_find(tt, key)
        entry == [key |-> key, depth |-> depth, flag |-> flag, eval |-> e, mv |-> mv,
                  age |-> tt.age, ply |-> ply]
    IN  IF k = 0 THEN [tt EXCEPT !.entries = Append(@, entry)]
        ELSE IF tt.entries[k].age # tt.age \/ depth >= tt.entries[k].depth
        THEN [tt EXCEPT !.entries[k] = entry]
        ELSE tt

\* killer moves: two slots a ply
KillerMoveTable_new(depth) == <<>>
NoKillers == <<NoMove, NoMove>>
killers_at(table, ply) ==
    IF ply + 1 <= Len(table) THEN table[ply + 1] ELSE NoKillers
killer_get_first(table, ply) == killers_at(table, ply)[1]
killer_get_second(table, ply) == killers_at(table, ply)[2]
killer_insert(table, mv, ply) ==
    LET wide == table \o [k \in 1 .. Max({0, ply + 1 - Len(table)}) |-> NoKillers]
    IN  IF wide[ply + 1][1] = mv THEN wide
        ELSE [wide EXCEPT ![ply + 1] = <<mv, wide[ply + 1][1]>>]

\* the score of one move in score_moves / score_moves_with_killer_moves
score_move(g, mv, tt_mv, killer_1, killer_2) ==
    IF tt_mv # NoMove /\ tt_mv = mv THEN TT_MOVE_SORT_VAL
    ELSE IF killer_1 # NoMove /\ killer_1 = mv THEN KILLER_MOVE_1_SORT_VAL
    ELSE IF killer_2 # NoMove /\ killer_2 = mv THEN KILLER_MOVE_2_SORT_VAL
    ELSE IF mv.tag \in {"King", "Rook", "Pawn", "Piece"} THEN
        IF mv.capture
        THEN MVV_LVA(at(g.position, mv.to).piece_type, mv.piece_type)
        ELSE 0
    ELSE IF mv.tag = "EnPassant" THEN MVV_LVA("p", "p")
    ELSE IF mv.tag = "Promotion" THEN
        IF mv.capture
        THEN MVV_LVA(mv.promote, "p") + MVV_LVA(at(g.position, mv.to).piece_type, "p")
        ELSE MVV_LVA(mv.promote, "p")
    ELSE 0

score_moves_with_killer_moves(g, mv_list, tt_mv, killer_mv_table, ply) ==
    [k \in 1 .. Len(mv_list) |->
        score_move(g, mv_list[k], tt_mv, killer_get_first(killer_mv_table, ply),
                   killer_get_second(killer_mv_table, ply))]

score_moves(g, mv_list, tt_mv) ==
    [k \in 1 .. Len(mv_list) |-> score_move(g, mv_list[k], tt_mv, NoMove, NoMove)]

swap(seq, a, b) == [seq EXCEPT ![a] = seq[b], ![b] = seq[a]]

\* the loop of pick_move with >= for >
RECURSIVE pick_scan_last(_, _, _)
pick_scan_last(scores, i, best_score_idx) ==
    IF i > Len(scores) THEN best_score_idx
    ELSE IF scores[i] >= scores[best_score_idx] THEN pick_scan_last(scores, i + 1, i)
    ELSE pick_scan_last(scores, i + 1, best_score_idx)

\* pick_move taking the last of the highest scores
pick_move_last_highest(mv_list, scores, start_idx) ==
    LET best_score_idx == pick_scan_last(scores, start_idx + 1, start_idx + 1)
    IN  [mv_list |-> swap(mv_list, start_idx + 1, best_score_idx),
         scores |-> swap(scores, start_idx + 1, best_score_idx),
         mv |-> mv_list[best_score_idx]]

\* the loop of pick_move from index i on: the index of the best score so far
\* changes only for a strictly higher score
RECURSIVE pick_scan(_, _, _)
pick_scan(scores, i, best_score_idx) ==
    IF i > Len(scores) THEN best_score_idx
    ELSE IF scores[i] > scores[best_score_idx] THEN pick_scan(scores, i + 1, i)
    ELSE pick_scan(scores, i + 1, best_score_idx)

\* pick_move: the first of the highest scores from start_idx on is swapped to
\* start_idx (indices from 0, as in the program)
pick_move(mv_list, scores, start_idx) ==
    LET best_score_idx == pick_scan(scores, start_idx + 1, start_idx + 1)
    IN  [mv_list |-> swap(mv_list, start_idx + 1, best_score_idx),
         scores |-> swap(scores, start_idx + 1, best_score_idx),
         mv |-> mv_list[best_score_idx]]

----------------------------------------------------------------------------
(* search.rs: get, alpha_beta and quiescence as a machine with a call      *)
(* stack.  A frame holds the parameters and locals of one activation and   *)
(* where it stands (pc); "null_from" remembers the game in which the      *)
(* activation made its null move, "entry_alpha" the alpha it was called    *)
(* with, "searched" the moves it has evaluated with their scores,          *)
(* "entry_game" the game it was called on; "chain" lists the calls the     *)
(* activation answers:                                                     *)
(* alpha_beta at depth 0 returns what quiescence returns, quiescence in    *)
(* check returns what alpha_beta(1) returns.                               *)

Call(fn, depth) == [fn |-> fn, depth |-> depth]

Frame(fn, depth, alpha, beta, levels_searched, do_null_move, chain) ==
    [fn |-> fn, pc |-> "entry", depth |-> depth, alpha |-> alpha, beta |-> beta,
     levels_searched |-> levels_searched, do_null_move |-> do_null_move,
     stm |-> White, in_check |-> FALSE,
     mv_list |-> <<>>, scores |-> <<>>, i |-> 0,
     legal_moves_available |-> FALSE, tt_details |-> TtDetails_new,
     found_pv |-> FALSE, best_move |-> NoMove,
     mv |-> NoMove, capture |-> NoPiece, prev_state |-> NoState,
     en_passant_option |-> NoSquare, null_from |-> NoGame,
     killer_mv_table |-> <<>>, evals |-> <<>>,
     entry_alpha |-> alpha, searched |-> <<>>, entry_game |-> NoGame,
     chain |-> Append(chain, Call(fn, depth))]

\* the activation f is entered with the game g
Entered(f, g) == [f EXCEPT !.entry_game = g]

NoRet ==
    [op |-> "-", value |-> 0, levels_searched |-> 0, chain |-> <<>>,
     tt_hit |-> FALSE, tt_ply |-> 0, kind |-> "-", mv |-> NoMove,
     stm |-> White, evals |-> <<>>]

top == stack[Len(stack)]
Running(fn, pc) == stack # <<>> /\ top.fn = fn /\ top.pc = pc
SetTop(f) == [stack EXCEPT ![Len(stack)] = f]
Pop == SubSeq(stack, 1, Len(stack) - 1)
\* the killer table is a local of get that every activation below it shares
killer_mv_table == stack[1].killer_mv_table

\* the activation f returns value to its caller
Return(f, value) ==
    /\ stack' = Pop
    /\ ret' = [NoRet EXCEPT !.op = f.fn, !.value = value,
                            !.levels_searched = f.levels_searched, !.chain = f.chain]

\* a script: the positions searched one after the other by one MoveFinder
Search(fen, depth, max_depth) == [fen |-> fen, depth |-> depth, max_depth |-> max_depth]

\* Game::from_fen, change_search_depth, change_max_depth
NewGame ==
    /\ stack = <<>>
    /\ io.status \in {"idle", "done"}
    /\ io.next <= Len(io.script)
    /\ game' = Game_from_fen(io.script[io.next].fen)
    /\ finder' = [finder EXCEPT !.depth = io.script[io.next].depth,
                                !.max_depth = io.script[io.next].max_depth]
    /\ io' = [io EXCEPT !.next = @ + 1, !.status = "loaded"]
    /\ ret' = NoRet
    /\ UNCHANGED <<stack, obs>>

\* get, up to its loop
GetStart ==
    /\ stack = <<>>
    /\ io.status = "loaded"
    /\ LET tt == tt_update_age(finder.tt)
           stm == game.state.side_to_move
           checked == in_check(game.position, stm)
           pseudo_legal_mv_list ==
               IF ~checked THEN pseudo_legal_moves(game, stm)
               ELSE pseudo_legal_escape_moves(game, stm)
           tt_mv_result == tt_probe_move(tt, game.state.zobrist, finder.depth)
           scores == score_moves(game, pseudo_legal_mv_list, tt_mv_result)
       IN  /\ finder' = [finder EXCEPT !.tt = tt]
           /\ stack' = <<[Frame("get", finder.depth, -MAX_EVAL, MAX_EVAL, 0, FALSE, <<>>)
                            EXCEPT !.pc = "loop", !.entry_game = game, !.stm = stm, !.in_check = checked,
                                   !.mv_list = pseudo_legal_mv_list, !.scores = scores,
                                   !.killer_mv_table = KillerMoveTable_new(finder.depth)]>>
    /\ io' = [io EXCEPT !.status = "searching"]
    /\ ret' = NoRet
    /\ UNCHANGED <<game, obs>>

\* get taking the latest of the moves that reach alpha
get_update_latest(f, e) ==
    LET g == [f EXCEPT !.i = @ + 1, !.pc = "loop", !.evals = Append(@, e),
                       !.searched = Append(@, [mv |-> f.mv, e |-> e])]
    IN  IF e >= f.alpha THEN [g EXCEPT !.alpha = e, !.best_move = f.mv]
        ELSE IF f.best_move = NoMove THEN [g EXCEPT !.best_move = f.mv]
        ELSE g

\* get: what follows the evaluation of a root move
get_update(f, e) ==
    LET g == [f EXCEPT !.i = @ + 1, !.pc = "loop", !.evals = Append(@, e),
                       !.searched = Append(@, [mv |-> f.mv, e |-> e])]
    IN  IF e > f.alpha THEN [g EXCEPT !.alpha = e, !.best_move = f.mv]
        ELSE IF f.best_move = NoMove THEN [g EXCEPT !.best_move = f.mv]
        ELSE g

\* get: one turn of the loop over the root moves, up to the call of alpha_beta
GetLoop ==
    /\ Running("get", "loop")
    /\ top.i < Len(top.mv_list)
    /\ LET picked == pick_move(top.mv_list, top.scores, top.i)
           mv == picked.mv
           f == [top EXCEPT !.mv_list = picked.mv_list, !.scores = picked.scores]
       IN  IF ~is_legal(game, mv)
           THEN /\ stack' = SetTop([f EXCEPT !.i = @ + 1])
                /\ UNCHANGED game
           ELSE LET prev_state == game.state
                    capture == captured_by(game.position, f.stm, mv)
                    made == make_move(game, mv)
                    g == [f EXCEPT !.mv = mv, !.capture = capture,
                                   !.prev_state = prev_state]
                IN  IF is_draw(made)
                    THEN /\ game' = unmake_move(made, mv, capture, prev_state)
                         /\ stack' = SetTop(get_update(g, DRAW_SCORE_get(made.position)))
                    ELSE /\ game' = made
                         /\ stack' = Append(SetTop([g EXCEPT !.pc = "after_child"]),
                                            Entered(Frame("alpha_beta", f.depth - 1,
                                                          -f.beta, -f.alpha, 1, FALSE,
                                                          <<>>), made))
    /\ UNCHANGED <<finder, ret, obs, io>>

\* get: alpha_beta has returned
GetAfterChild ==
    /\ Running("get", "after_child")
    /\ game' = unmake_move(game, top.mv, top.capture, top.prev_state)
    /\ stack' = SetTop(get_update(top, -ret.value))
    /\ ret' = NoRet
    /\ UNCHANGED <<finder, obs, io>>

\* the score get hands out: alpha seen from White
white_pov_unsigned(stm, alpha) == alpha
white_pov(stm, alpha) == IF stm = White THEN alpha ELSE -alpha

\* get after its loop: the store, then best_move.unwrap()
GetFinish ==
    /\ Running("get", "loop")
    /\ top.i >= Len(top.mv_list)
    /\ finder' = [finder EXCEPT !.tt = tt_store(@, game.state.zobrist, finder.depth, Exact,
                                                top.alpha, top.best_move, 0)]
    /\ stack' = <<>>
    /\ ret' = [NoRet EXCEPT !.op = "get", !.chain = top.chain, !.stm = top.stm,
                            !.evals = top.evals, !.mv = top.best_move,
                            !.kind = IF top.best_move = NoMove THEN "panic" ELSE "some",
                            !.value = IF top.best_move = NoMove THEN 0
                                      ELSE white_pov(top.stm, top.alpha)]
    /\ io' = [io EXCEPT !.status = IF top.best_move = NoMove THEN "panicked" ELSE "done"]
    /\ obs' = Append(obs, [kind |-> IF top.best_move = NoMove THEN "panic" ELSE "some",
                           mv |-> top.best_move])
    /\ UNCHANGED game

\* the index alpha_beta gives the killer table, to read and to insert:
\* its depth
killer_index(f) == f.depth

\* alpha_beta: the move list and its scores, the locals of the loop
ab_generate(f, g, tt, killers) ==
    LET pseudo_legal_mv_list ==
            IF f.in_check THEN pseudo_legal_escape_moves(g, f.stm)
            ELSE pseudo_legal_moves(g, f.stm)
        tt_mv_result == tt_probe_move(tt, g.state.zobrist, f.depth)
    IN  [f EXCEPT !.pc = "loop", !.mv_list = pseudo_legal_mv_list,
                  !.scores = score_moves_with_killer_moves(g, pseudo_legal_mv_list,
                                                           tt_mv_result, killers,
                                                           killer_index(f)),
                  !.i = 0, !.legal_moves_available = FALSE,
                  !.tt_details = TtDetails_new, !.found_pv = FALSE]

\* a null move wherever the side to move is not in check and depth allows
null_move_allowed_chained(f, checked) == ~checked /\ f.depth > R

\* nothing is kept for unmake_null_move
saved_en_passant_none(g) == NoSquare

\* the en-passant square kept for unmake_null_move
saved_en_passant(g) == g.state.en_passant

\* the condition of null-move pruning
null_move_allowed(f, checked) == f.do_null_move /\ ~checked /\ f.depth > R

\* alpha_beta from its entry to the null move or to the loop
ABEntry ==
    /\ Running("alpha_beta", "entry")
    /\ LET f == top
           tt_val_result == tt_probe_val(finder.tt, game.state.zobrist, f.depth,
                                         f.alpha, f.beta)
           stm == game.state.side_to_move
           checked == in_check(game.position, stm)
           g == [f EXCEPT !.stm = stm, !.in_check = checked]
       IN  IF f.depth = 0
           THEN /\ stack' = SetTop(Entered(Frame("quiescence", 0, f.alpha, f.beta,
                                                 f.levels_searched, FALSE, f.chain),
                                           f.entry_game))
                /\ UNCHANGED <<game, ret>>
           ELSE IF tt_val_result.hit
           THEN /\ stack' = Pop
                /\ ret' = [NoRet EXCEPT !.op = f.fn, !.value = tt_val_result.val,
                                        !.levels_searched = f.levels_searched,
                                        !.chain = f.chain, !.tt_hit = TRUE,
                                        !.tt_ply = tt_val_result.ply]
                /\ UNCHANGED game
           ELSE IF null_move_allowed(f, checked)
           THEN /\ game' = make_null_move(game)
                /\ stack' = Append(SetTop([g EXCEPT !.pc = "after_null",
                                                    !.en_passant_option =
                                                        saved_en_passant(game),
                                                    !.null_from = game]),
                                   Entered(Frame("alpha_beta", f.depth - 1 - R, -f.beta,
                                                 -f.beta + 1, f.levels_searched + 1,
                                                 FALSE, <<>>), make_null_move(game)))
                /\ UNCHANGED ret
           ELSE /\ stack' = SetTop(ab_generate(g, game, finder.tt, killer_mv_table))
                /\ UNCHANGED <<game, ret>>
    /\ UNCHANGED <<finder, obs, io>>

\* alpha_beta: the null-move search has returned
ABAfterNull ==
    /\ Running("alpha_beta", "after_null")
    /\ LET e == -ret.value
           unmade == unmake_null_move(game, top.en_passant_option)
       IN  /\ game' = unmade
           /\ IF e >= top.beta
              THEN Return(top, e)
              ELSE /\ stack' = SetTop(ab_generate(top, unmade, finder.tt, killer_mv_table))
                   /\ ret' = NoRet
    /\ UNCHANGED <<finder, obs, io>>

\* the upper bound kept is the score of the latest move that failed low
ab_update_latest_bound(f, e) ==
    IF e >= f.beta
    THEN [f EXCEPT !.tt_details = TtDetails_from(Beta, f.mv, e), !.alpha = e,
                   !.pc = "finish"]
    ELSE IF e > f.alpha
    THEN [f EXCEPT !.tt_details = TtDetails_from(Exact, f.mv, e), !.alpha = e,
                   !.found_pv = TRUE, !.i = @ + 1, !.pc = "loop"]
    ELSE [f EXCEPT !.tt_details = TtDetails_from(Alpha, NoMove, e), !.i = @ + 1,
                   !.pc = "loop"]

\* alpha_beta: what follows the evaluation of a move, the frame after it
ab_update(f, e) ==
    IF e >= f.beta
    THEN [f EXCEPT !.tt_details = TtDetails_from(Beta, f.mv, e), !.alpha = e,
                   !.pc = "finish"]
    ELSE IF e > f.alpha
    THEN [f EXCEPT !.tt_details = TtDetails_from(Exact, f.mv, e), !.alpha = e,
                   !.found_pv = TRUE, !.i = @ + 1, !.pc = "loop"]
    ELSE IF e > f.tt_details.eval
    THEN [f EXCEPT !.tt_details = TtDetails_from(Alpha, NoMove, e), !.i = @ + 1,
                   !.pc = "loop"]
    ELSE [f EXCEPT !.i = @ + 1, !.pc = "loop"]

\* the stack with the top frame updated and the killer inserted on a cutoff
ab_after_move(f, e) ==
    LET stack1 == SetTop(ab_update([f EXCEPT !.searched =
                                          Append(@, [mv |-> f.mv, e |-> e])], e))
    IN  IF e >= f.beta /\ f.capture = NoPiece
        THEN [stack1 EXCEPT ![1].killer_mv_table = killer_insert(@, f.mv,
                                                                   killer_index(f))]
        ELSE stack1

\* the zero window as soon as one legal move has been searched
first_search_after_first_legal(f) ==
    IF ~f.legal_moves_available
    THEN [alpha |-> -f.beta, beta |-> -f.alpha, do_null_move |-> FALSE,
          pc |-> "after_full"]
    ELSE [alpha |-> -f.alpha - 1, beta |-> -f.alpha, do_null_move |-> ~f.do_null_move,
          pc |-> "after_zero_window"]

\* the window and the null-move flag of the first call on a move, and where
\* the caller goes on: the full window until a move has raised alpha
first_search(f) ==
    IF ~f.found_pv
    THEN [alpha |-> -f.beta, beta |-> -f.alpha, do_null_move |-> FALSE,
          pc |-> "after_full"]
    ELSE [alpha |-> -f.alpha - 1, beta |-> -f.alpha, do_null_move |-> ~f.do_null_move,
          pc |-> "after_zero_window"]

\* alpha_beta: one turn of the loop, up to the first call on the move
ABLoop ==
    /\ Running("alpha_beta", "loop")
    /\ top.i < Len(top.mv_list)
    /\ LET picked == pick_move(top.mv_list, top.scores, top.i)
           mv == picked.mv
           f == [top EXCEPT !.mv_list = picked.mv_list, !.scores = picked.scores]
       IN  IF ~is_legal(game, mv)
           THEN /\ stack' = SetTop([f EXCEPT !.i = @ + 1])
                /\ UNCHANGED game
           ELSE LET prev_state == game.state
                    capture == captured_by(game.position, f.stm, mv)
                    made == make_move(game, mv)
                    g == [f EXCEPT !.legal_moves_available = TRUE, !.mv = mv,
                                   !.capture = capture, !.prev_state = prev_state]
                IN  IF is_draw(made)
                    THEN /\ game' = unmake_move(made, mv, capture, prev_state)
                         /\ stack' = ab_after_move(g, DRAW_SCORE_get(made.position))
                    ELSE LET w == first_search(f)
                         IN  /\ game' = made
                             /\ stack' = Append(SetTop([g EXCEPT !.pc = w.pc]),
                                                Entered(Frame("alpha_beta", f.depth - 1,
                                                              w.alpha, w.beta,
                                                              f.levels_searched + 1,
                                                              w.do_null_move, <<>>),
                                                        made))
    /\ UNCHANGED <<finder, ret, obs, io>>

\* alpha_beta: the zero-window search has returned; re-search or go on
ABAfterZeroWindow ==
    /\ Running("alpha_beta", "after_zero_window")
    /\ LET score == -ret.value
       IN  IF score > top.alpha /\ score < top.beta
           THEN /\ stack' = Append(SetTop([top EXCEPT !.pc = "after_full"]),
                                   Entered(Frame("alpha_beta", top.depth - 1, -top.beta,
                                                 -top.alpha, top.levels_searched + 1,
                                                 ~top.do_null_move, <<>>), game))
                /\ UNCHANGED game
           ELSE /\ game' = unmake_move(game, top.mv, top.capture, top.prev_state)
                /\ stack' = ab_after_move(top, score)
    /\ ret' = NoRet
    /\ UNCHANGED <<finder, obs, io>>

\* alpha_beta: a full-window search has returned
ABAfterFull ==
    /\ Running("alpha_beta", "after_full")
    /\ game' = unmake_move(game, top.mv, top.capture, top.prev_state)
    /\ stack' = ab_after_move(top, -ret.value)
    /\ ret' = NoRet
    /\ UNCHANGED <<finder, obs, io>>

\* alpha_beta after its loop: checkmate, stalemate, or the store and alpha
ABFinish ==
    /\ \/ Running("alpha_beta", "finish")
       \/ Running("alpha_beta", "loop") /\ top.i >= Len(top.mv_list)
    /\ IF ~top.legal_moves_available /\ top.in_check
       THEN /\ Return(top, -(MAX_EVAL - top.levels_searched))
            /\ UNCHANGED finder
       ELSE IF ~top.legal_moves_available /\ DRAW_SCORE_get(game.position) > top.alpha
       THEN /\ Return(top, DRAW_SCORE_get(game.position))
            /\ UNCHANGED finder
       ELSE /\ finder' = [finder EXCEPT !.tt =
                              tt_store(@, game.state.zobrist, top.depth, top.tt_details.flag,
                                       top.tt_details.eval, top.tt_details.mv,
                                       top.levels_searched)]
            /\ Return(top, top.alpha)
    /\ UNCHANGED <<game, obs, io>>

\* the cap one ply late
at_max_depth_passed(levels_searched, max_depth) == levels_searched > max_depth

\* quiescence stops at the ply cap
at_max_depth(levels_searched, max_depth) == levels_searched = max_depth

\* the escape search at depth 0, which is quiescence again
escape_search_depth_0(f) ==
    Entered(Frame("alpha_beta", 0, f.alpha, f.beta, f.levels_searched, FALSE, f.chain),
            f.entry_game)

\* quiescence in check: the value is that of alpha_beta at depth 1 on the
\* same position, window and ply
escape_search(f) ==
    Entered(Frame("alpha_beta", 1, f.alpha, f.beta, f.levels_searched, FALSE, f.chain),
            f.entry_game)

\* quiescence from its entry to its loop
QEntry ==
    /\ Running("quiescence", "entry")
    /\ LET f == top
           stm == game.state.side_to_move
           checked == in_check(game.position, stm)
           stand_pat == eval(game)
           pseudo_legal_mv_list == pseudo_legal_loud_moves(game, stm)
       IN  IF at_max_depth(f.levels_searched, finder.max_depth)
           THEN Return(f, eval(game))
           ELSE IF checked
           THEN /\ stack' = SetTop(escape_search(f))
                /\ UNCHANGED ret
           ELSE IF stand_pat >= f.beta
           THEN Return(f, stand_pat)
           ELSE /\ stack' = SetTop([f EXCEPT !.pc = "loop", !.stm = stm,
                                             !.in_check = checked,
                                             !.alpha = Max({f.alpha, stand_pat}),
                                             !.mv_list = pseudo_legal_mv_list,
                                             !.scores = score_moves(game,
                                                 pseudo_legal_mv_list, NoMove),
                                             !.i = 0])
                /\ UNCHANGED ret
    /\ UNCHANGED <<game, finder, obs, io>>

\* quiescence: one turn of the loop over the loud moves
QLoop ==
    /\ Running("quiescence", "loop")
    /\ top.i < Len(top.mv_list)
    /\ LET picked == pick_move(top.mv_list, top.scores, top.i)
           mv == picked.mv
           f == [top EXCEPT !.mv_list = picked.mv_list, !.scores = picked.scores]
       IN  IF ~is_legal(game, mv)
           THEN /\ stack' = SetTop([f EXCEPT !.i = @ + 1])
                /\ UNCHANGED <<game, ret>>
           ELSE LET prev_state == game.state
                    capture == captured_by(game.position, f.stm, mv)
                    made == make_move(game, mv)
                    e == DRAW_SCORE_get(made.position)
                IN  IF is_draw(made)
                    THEN /\ game' = unmake_move(made, mv, capture, prev_state)
                         /\ IF e >= f.beta
                            THEN Return(f, e)
                            ELSE /\ stack' = SetTop([f EXCEPT !.alpha = Max({@, e}),
                                                              !.i = @ + 1])
                                 /\ UNCHANGED ret
                    ELSE /\ game' = made
                         /\ stack' = Append(SetTop([f EXCEPT !.pc = "after_child",
                                                             !.mv = mv, !.capture = capture,
                                                             !.prev_state = prev_state]),
                                            Entered(Frame("quiescence", 0, -f.beta,
                                                          -f.alpha, f.levels_searched + 1,
                                                          FALSE, <<>>), made))
                         /\ UNCHANGED ret
    /\ UNCHANGED <<finder, obs, io>>

\* quiescence returning on a cutoff before it takes the move back
QAfterChild_cutoff_first ==
    /\ Running("quiescence", "after_child")
    /\ LET e == -ret.value
       IN  IF e >= top.beta
           THEN /\ Return(top, e)
                /\ UNCHANGED game
           ELSE /\ game' = unmake_move(game, top.mv, top.capture, top.prev_state)
                /\ stack' = SetTop([top EXCEPT !.alpha = Max({@, e}), !.i = @ + 1,
                                               !.pc = "loop"])
                /\ ret' = NoRet
    /\ UNCHANGED <<finder, obs, io>>

\* quiescence: the search of a loud move has returned
QAfterChild ==
    /\ Running("quiescence", "after_child")
    /\ game' = unmake_move(game, top.mv, top.capture, top.prev_state)
    /\ LET e == -ret.value
       IN  IF e >= top.beta
           THEN Return(top, e)
           ELSE /\ stack' = SetTop([top EXCEPT !.alpha = Max({@, e}), !.i = @ + 1,
                                               !.pc = "loop"])
                /\ ret' = NoRet
    /\ UNCHANGED <<finder, obs, io>>

\* quiescence leaving its result in the table
QFinish_stores ==
    /\ Running("quiescence", "loop")
    /\ top.i >= Len(top.mv_list)
    /\ finder' = [finder EXCEPT !.tt =
                      tt_store(@, game.state.zobrist, 0, "Exact", top.alpha, NoMove,
                               top.levels_searched)]
    /\ Return(top, top.alpha)
    /\ UNCHANGED <<game, obs, io>>

\* quiescence after its loop
QFinish ==
    /\ Running("quiescence", "loop")
    /\ top.i >= Len(top.mv_list)
    /\ Return(top, top.alpha)
    /\ UNCHANGED <<game, finder, obs, io>>

----------------------------------------------------------------------------
(* The positions searched *)

\* White mates in one: Rf1-f8
FenMateInOne ==
    <<"7", "k", "/", "6", "p", "p", "/", "8", "/", "8", "/", "2", "B",
      "5", "/", "8", "/", "8", "/", "5", "R", "K", "1", " ", "w", " ",
      "-", " ", "-", " ", "0", " ", "1">>
\* Black to move is in check and has Kg8-h8 alone, into FenMateInOne
FenMatedInTwo ==
    <<"6", "k", "1", "/", "6", "p", "p", "/", "8", "/", "8", "/", "2",
      "B", "5", "/", "8", "/", "8", "/", "5", "R", "K", "1", " ", "b",
      " ", "-", " ", "-", " ", "0", " ", "1">>
\* Black to move is stalemated
FenStalemate ==
    <<"7", "k", "/", "5", "Q", "2", "/", "6", "K", "1", "/", "8", "/",
      "8", "/", "8", "/", "8", "/", "8", " ", "b", " ", "-", " ", "-",
      " ", "0", " ", "1">>
\* Black to move is checkmated
FenCheckmate ==
    <<"7", "k", "/", "6", "Q", "1", "/", "6", "K", "1", "/", "8", "/",
      "8", "/", "8", "/", "8", "/", "8", " ", "b", " ", "-", " ", "-",
      " ", "0", " ", "1">>
\* after Nd1-f2 Ke2xf2 White is stalemated, a knight and a pawn up otherwise
FenStalemateTrap ==
    <<"8", "/", "8", "/", "8", "/", "8", "/", "8", "/", "7", "p", "/",
      "4", "k", "2", "P", "/", "3", "N", "3", "K", " ", "w", " ", "-",
      " ", "-", " ", "0", " ", "1">>

\* kings and pawns, White's h-pawn free to advance one or two squares
FenDoublePush ==
    <<"k", "7", "/", "8", "/", "8", "/", "8", "/", "p", "7", "/", "p", "7",
      "/", "P", "6", "P", "/", "6", "K", "1", " ", "b", " ", "-", " ", "-",
      " ", "0", " ", "1">>

\* a pawn each: after h2-h4 a pass by Black loses the g-pawn
FenPassLoses ==
    <<"8", "/", "8", "/", "8", "/", "6", "p", "1", "/", "8", "/", "k", "7",
      "/", "7", "P", "/", "7", "K", " ", "b", " ", "-", " ", "-", " ", "0",
      " ", "1">>

\* a knight attacks a pawn that nothing defends
FenLoosePawn ==
    <<"7", "k", "/", "8", "/", "8", "/", "2", "n", "5", "/", "4", "P", "3",
      "/", "8", "/", "7", "P", "/", "K", "7", " ", "w", " ", "-", " ", "-",
      " ", "0", " ", "1">>

\* kings and blocked pawns, Black a pawn up and to move
FenBlocked ==
    <<"k", "7", "/", "8", "/", "8", "/", "8", "/", "p", "7", "/", "p", "6",
      "p", "/", "P", "6", "P", "/", "6", "K", "1", " ", "b", " ", "-", " ",
      "-", " ", "0", " ", "1">>

\* Rf8 mates; the pawn on b7 promotes by capturing on a8 or c8
FenPromo ==
    <<"n", "1", "b", "4", "k", "/", "1", "P", "4", "p", "p", "/", "8", "/",
      "8", "/", "2", "B", "5", "/", "8", "/", "8", "/", "5", "R", "K", "1",
      " ", "w", " ", "-", " ", "-", " ", "0", " ", "1">>

\* after any move of the black king the pawn on b7 promotes without capturing
FenQuietPromo ==
    <<"7", "k", "/", "1", "P", "6", "/", "8", "/", "8", "/", "8", "/", "8",
      "/", "8", "/", "6", "K", "1", " ", "b", " ", "-", " ", "-", " ", "0",
      " ", "1">>

Scripts ==
    {<<Search(FenMateInOne, 1, 3), Search(FenMatedInTwo, 2, 4)>>,
     <<Search(FenMatedInTwo, 2, 4)>>,
     <<Search(FenMateInOne, 1, 1)>>,
     <<Search(FenStalemate, 1, 3)>>,
     <<Search(FenCheckmate, 2, 4)>>,
     <<Search(FenStalemateTrap, 3, 5)>>,
     <<Search(FenBlocked, 5, 6)>>,
     <<Search(FenDoublePush, 5, 6)>>,
     <<Search(FenPassLoses, 6, 7)>>,
     <<Search(FenPromo, 1, 2), Search(FenPromo, 1, 2)>>,
     <<Search(FenQuietPromo, 2, 3)>>,
     <<Search(FenLoosePawn, 1, 2)>>}

Init ==
    /\ game = NoGame
    /\ finder = [tt |-> TranspositionTable_new, depth |-> DEFAULT_DEPTH,
                 max_depth |-> DEFAULT_MAX_DEPTH]
    /\ stack = <<>>
    /\ ret = NoRet
    /\ obs = <<>>
    /\ \E script \in Scripts : io = [script |-> script, next |-> 1, status |-> "idle"]

Next ==
    \/ NewGame
    \/ GetStart
    \/ GetLoop
    \/ GetAfterChild
    \/ GetFinish
    \/ ABEntry
    \/ ABAfterNull
    \/ ABLoop
    \/ ABAfterZeroWindow
    \/ ABAfterFull
    \/ ABFinish
    \/ QEntry
    \/ QLoop
    \/ QAfterChild
    \/ QFinish

Spec == Init /\ [][Next]_vars

\* a step of Next is possible: a frame is on the stack (each pc has its step),
\* or a loaded game waits for get, or the script has a position left
CanStep ==
    \/ stack # <<>>
    \/ stack = <<>> /\ io.status = "loaded"
    \/ stack = <<>> /\ io.status \in {"idle", "done"} /\ io.next <= Len(io.script)

\* the search is one synchronous computation: a step that can be taken is
\* taken, nothing waits or blocks. This is WF_vars(Next) with ENABLED
\* <<Next>>_vars written as the state predicate CanStep; the return of get is
\* named apart
SpecLive ==
    /\ Spec
    /\ ([]<>(~CanStep) \/ []<><<Next>>_vars)
    /\ WF_vars(GetFinish)

\* the side to move has no legal move
NoLegalMove(g) == legal_moves(g) = {}
Checkmated(g) == in_check(g.position, g.state.side_to_move) /\ NoLegalMove(g)
Stalemated(g) == ~in_check(g.position, g.state.side_to_move) /\ NoLegalMove(g)
Answers(fn) == \E k \in 1 .. Len(ret.chain) : ret.chain[k].fn = fn

\* C4: if the side to move has no legal move in the root position, get
\* returns None instead of a move, and does so without failing.
C4_GetReturnsNone ==
    (ret.op = "get" /\ NoLegalMove(game)) => ret.kind = "none"

\* the side to move mates with its next move; the side to move has a move,
\* and whatever it plays it is mated by the reply
MatesInOne(g) == \E m \in legal_moves(g) : Checkmated(make_move(g, m))
MatedInTwo(g) ==
    /\ ~NoLegalMove(g)
    /\ \A m \in legal_moves(g) : MatesInOne(make_move(g, m))

\* C5: at a node at ply p where the side to move is in check and has no legal
\* move, alpha_beta returns -(MAX_EVAL - p); so the root score of a forced
\* mate delivered after k plies is MAX_EVAL - k for the mating side (here for
\* k = 1 and k = 2, get's score being White's).
C5_MateScoreByPly ==
    /\ (ret.op \in {"alpha_beta", "quiescence"} /\ Answers("alpha_beta") /\ Checkmated(game))
           => ret.value = -(MAX_EVAL - ret.levels_searched)
    /\ (ret.op = "get" /\ ret.kind = "some" /\ finder.depth >= 1 /\ MatesInOne(game))
           => ret.value = white_pov(ret.stm, MAX_EVAL - 1)
    /\ (ret.op = "get" /\ ret.kind = "some" /\ finder.depth >= 2 /\ MatedInTwo(game))
           => ret.value = white_pov(ret.stm, -(MAX_EVAL - 2))

\* C6: at a node where the side to move is not in check and has no legal move,
\* alpha_beta returns the draw score, for every window (here for the nodes
\* where alpha_beta ran its own loop: depth >= 1, no table hit).
C6_StalemateScoresDraw ==
    (ret.op = "alpha_beta" /\ ~ret.tt_hit /\ Stalemated(game))
        => ret.value = DRAW_SCORE_get(game.position)

\* a mate score stored at ply from_ply, as the node at ply to_ply is to read it
Rebased(v, from_ply, to_ply) ==
    IF v > MAX_EVAL - 256 THEN v + from_ply - to_ply
    ELSE IF v < 256 - MAX_EVAL THEN v - from_ply + to_ply
    ELSE v

\* C7: a table score near +/-MAX_EVAL is stored relative to the ply of the node
\* that stores it and re-based to the ply of the node that reads it: the value
\* a hit hands out is the stored one moved from the storing node's ply to the
\* reading node's.
C7_TableMateScoreRebased ==
    ret.tt_hit => ret.value = Rebased(ret.value, ret.tt_ply, ret.levels_searched)

\* C9: the score get returns is White's: the maximum over the legal root
\* moves of the negated child value or draw score when White is to move at
\* the root, its negation when Black is.
C9_ScoreIsWhites ==
    (ret.op = "get" /\ ret.kind = "some")
        => LET negamax == Max({ret.evals[k] : k \in 1 .. Len(ret.evals)})
           IN  ret.value = IF ret.stm = White THEN negamax ELSE -negamax

\* Black to move at the root, several legal moves, a score that is not zero
C9_Witness ==
    /\ ret.op = "get"
    /\ ret.kind = "some"
    /\ ret.stm = Black
    /\ Len(ret.evals) >= 2
    /\ ret.value # 0
    /\ ret.value = -Max({ret.evals[k] : k \in 1 .. Len(ret.evals)})

\* the move the table holds for the node on top of the stack
TtMoveHere == tt_probe_move(finder.tt, game.state.zobrist, top.depth)
\* get or alpha_beta has scored the moves of its node and picked none yet
Scored ==
    /\ stack # <<>>
    /\ top.fn \in {"get", "alpha_beta"}
    /\ top.pc = "loop"
    /\ top.i = 0

\* C13: whenever the table's move is in the move list of a node of get or
\* alpha_beta, every other move of the list has a lower ordering score, so
\* that pick_move takes the table's move first.
C13_TtMoveOrderedFirst ==
    (Scored /\ \E k \in 1 .. Len(top.mv_list) : top.mv_list[k] = TtMoveHere) =>
        /\ \A k, t \in 1 .. Len(top.mv_list) :
               (top.mv_list[t] = TtMoveHere /\ top.mv_list[k] # TtMoveHere)
                   => top.scores[k] < top.scores[t]
        /\ pick_move(top.mv_list, top.scores, 0).mv = TtMoveHere

\* the moves that stand in the killer slots
KillerMoves ==
    IF stack = <<>> THEN {}
    ELSE {killer_mv_table[ply][slot] :
             ply \in 1 .. Len(killer_mv_table), slot \in 1 .. 2} \ {NoMove}

\* C14: only quiet moves enter the killer table: no capture, no en passant,
\* no promotion, capturing or not.
C14_KillersAreQuiet ==
    \A m \in KillerMoves :
        ~m.capture /\ m.tag # "EnPassant" /\ m.tag # "Promotion"

\* alpha_beta calls itself on a move: the caller's frame before the call, the
\* callee's frame after it
Calls(pc) == Running("alpha_beta", pc) /\ Len(stack') = Len(stack) + 1
Callee == stack'[Len(stack')]
FullWindow == Callee.alpha = -top.beta /\ Callee.beta = -top.alpha
ZeroWindow == Callee.alpha = -top.alpha - 1 /\ Callee.beta = -top.alpha
Between == -ret.value > top.alpha /\ -ret.value < top.beta

NullMoveMade == Calls("entry") /\ stack'[Len(stack)].pc = "after_null"

\* C16: a null move is made only at a node called with null allowed, whose
\* side to move is not in check and whose depth is greater than R; the node
\* it reaches is searched at depth - 1 - R with the window (-beta, -beta + 1)
\* and null disallowed, and the node making the null move was not itself
\* reached by one: no two consecutive plies are null moves.
C16_NullMoveNotChained ==
    [][NullMoveMade =>
          /\ top.do_null_move
          /\ ~in_check(game.position, game.state.side_to_move)
          /\ top.depth > R
          /\ game' = make_null_move(game)
          /\ Callee.fn = "alpha_beta"
          /\ Callee.depth = top.depth - 1 - R
          /\ Callee.alpha = -top.beta /\ Callee.beta = -top.beta + 1
          /\ Callee.levels_searched = top.levels_searched + 1
          /\ ~Callee.do_null_move
          /\ Len(stack) >= 2 => stack[Len(stack) - 1].pc # "after_null"]_vars

\* a null move has been made and the reduced search is about to start
C16_Witness ==
    /\ Len(stack) >= 3
    /\ stack[Len(stack) - 1].fn = "alpha_beta"
    /\ stack[Len(stack) - 1].pc = "after_null"
    /\ top.pc = "entry"
    /\ top.depth = stack[Len(stack) - 1].depth - 1 - R
    /\ game.state.side_to_move # stack[Len(stack) - 1].stm

\* C17: when the null-move search has returned, the game is the game of
\* the null move's node with the side to move flipped, the en-passant
\* square cleared and the Zobrist key following both, and the step
\* alpha_beta takes next, whether it returns on eval >= beta or goes on to
\* its moves, leaves the game exactly as it was before the null move: side
\* to move, en-passant square, Zobrist key, position, castle rights,
\* counters and repetition history.
C17_NullMoveUndone ==
    [][Running("alpha_beta", "after_null") =>
          /\ game.position = top.null_from.position
          /\ game.history = top.null_from.history
          /\ game.state.castle_rights = top.null_from.state.castle_rights
          /\ game.state.halfmoves = top.null_from.state.halfmoves
          /\ game.state.side_to_move # top.null_from.state.side_to_move
          /\ game.state.en_passant = NoSquare
          /\ top.en_passant_option = top.null_from.state.en_passant
          /\ game' = top.null_from
          /\ game'.state.zobrist =
                Zobrist_new(game'.position, game'.state.castle_rights,
                            game'.state.en_passant, game'.state.side_to_move)
          /\ IF -ret.value >= top.beta
             THEN Len(stack') = Len(stack) - 1 /\ ret'.value = -ret.value
             ELSE stack'[Len(stack)].pc = "loop"]_vars

\* the null-move search of a node with an en-passant square failed to reach
\* beta, the null move is undone and the node is about to search its moves
C17_Witness ==
    /\ Running("alpha_beta", "loop")
    /\ top.i = 0
    /\ top.null_from # NoGame
    /\ top.null_from.state.en_passant # NoSquare
    /\ game = top.null_from

\* alpha_beta has left its loop
AtFinish ==
    \/ Running("alpha_beta", "finish")
    \/ Running("alpha_beta", "loop") /\ top.i >= Len(top.mv_list)
\* the k-th move the node evaluated raised alpha
RaisedAlpha(f, k) ==
    f.searched[k].e > Max({f.entry_alpha} \cup {f.searched[j].e : j \in 1 .. k - 1})
\* what the node is to store by the scores of the moves it evaluated
BoundOf(f) ==
    LET n == Len(f.searched)
        raising == {k \in 1 .. n : RaisedAlpha(f, k)}
    IN  IF f.searched[n].e >= f.beta
        THEN TtDetails_from(Beta, f.searched[n].mv, f.searched[n].e)
        ELSE IF raising # {}
        THEN TtDetails_from(Exact, f.searched[Max(raising)].mv, f.searched[Max(raising)].e)
        ELSE TtDetails_from(Alpha, NoMove, Max({f.searched[k].e : k \in 1 .. n}))

\* C18: when alpha_beta finishes a node with a legal move, what it hands to
\* the table for the node's key and depth is the flag Beta with the cutoff
\* move and its score if a move scored >= beta, otherwise the flag Exact
\* with the last move that raised alpha and its score, otherwise the flag
\* Alpha with no move and the highest score of the moves searched.
C18_StoredBound ==
    [][(AtFinish /\ top.legal_moves_available) =>
          /\ top.tt_details = BoundOf(top)
          /\ finder'.tt = tt_store(finder.tt, game.state.zobrist, top.depth,
                                   BoundOf(top).flag, BoundOf(top).eval,
                                   BoundOf(top).mv, top.levels_searched)]_vars

\* a node whose moves all failed low, a later one lower than an earlier one,
\* has stored its upper bound
C18_Witness ==
    /\ ret.op = "alpha_beta" /\ ~ret.tt_hit
    /\ LET k == tt_find(finder.tt, game.state.zobrist)
       IN  /\ k # 0
           /\ finder.tt.entries[k].flag = Alpha
           /\ finder.tt.entries[k].mv = NoMove
           /\ finder.tt.entries[k].eval = ret.value - 100
           /\ legal_moves(game) # {}

\* C19: a node whose side to move has no legal move, checkmated or
\* stalemated, whatever its alpha, returns without a write to the
\* transposition table: no entry with the score -MAX_EVAL and the flag Alpha
\* is stored for its position.
C19_NoStoreWithoutLegalMove ==
    [][(AtFinish /\ ~top.legal_moves_available) =>
          /\ finder'.tt = finder.tt
          /\ LET k == tt_find(finder'.tt, game.state.zobrist)
             IN  k # 0 => ~(/\ finder'.tt.entries[k].flag = Alpha
                            /\ finder'.tt.entries[k].eval = -MAX_EVAL)]_vars

\* C20: in a search started by get with 1 <= depth <= max_depth no
\* activation of alpha_beta or quiescence has levels_searched above
\* max_depth, whether reached by a move, by the null move or by quiescence's
\* escape from check into alpha_beta at depth 1, and quiescence called at
\* levels_searched = max_depth returns the static evaluation and makes no
\* move.
C20_MaxDepthIsCap ==
    [][(finder.depth >= 1 /\ finder.depth <= finder.max_depth /\ finder' = finder) =>
          /\ \A k \in 1 .. Len(stack') :
                stack'[k].fn \in {"alpha_beta", "quiescence"}
                    => stack'[k].levels_searched <= finder.max_depth
          /\ (Running("quiescence", "entry") /\ top.levels_searched = finder.max_depth)
                => /\ stack' = Pop
                   /\ game' = game
                   /\ ret'.op = "quiescence"
                   /\ ret'.value = eval(game)]_vars

\* quiescence, reached at the cap below alpha_beta's depth 0 with the side
\* to move in check, has returned the static evaluation
C20_Witness ==
    /\ ret.op = "quiescence"
    /\ ret.levels_searched = finder.max_depth
    /\ ret.value = eval(game)
    /\ in_check(game.position, game.state.side_to_move)
    /\ stack # <<>>
    /\ top.fn \in {"get", "alpha_beta"}

\* get has started on a root position with a legal move
GetStarted ==
    /\ Running("get", "loop") /\ top.i = 0
    /\ finder.depth >= 1 /\ finder.depth <= finder.max_depth
    /\ legal_moves(game) # {}
GetReturned == stack = <<>> /\ ret.op = "get" /\ ret.kind = "some" /\ io.status = "done"
\* a call that waits for its callee, and a call whose value is returned as it is
PushCall == stack # <<>> /\ Len(stack') = Len(stack) + 1
TailCall ==
    /\ stack # <<>> /\ Len(stack') = Len(stack)
    /\ top.pc = "entry" /\ stack'[Len(stack)].pc = "entry"
    /\ stack'[Len(stack)].fn # top.fn
AnyCall == PushCall \/ TailCall
\* what is left to a call: the plies to the cap, and within a ply alpha_beta
\* at depth 0 before quiescence before alpha_beta at depth 1 or more
Rank(f) ==
    3 * (finder.max_depth - f.levels_searched)
    + (IF f.fn = "quiescence" THEN 1 ELSE IF f.depth = 0 THEN 2 ELSE 0)

\* C21 as stated: get on a root position with a legal move, 1 <= depth <=
\* max_depth, returns a result, and each call of alpha_beta or quiescence
\* has a smaller depth or a greater levels_searched than its caller.
C21_DepthOrPlyDecreases ==
    /\ GetStarted ~> GetReturned
    /\ [][AnyCall => \/ Callee.depth < top.depth
                     \/ Callee.levels_searched > top.levels_searched]_vars

\* C21 as the program has it: get on a root position with a legal move,
\* 1 <= depth <= max_depth, returns a result; a call on a move or a null
\* move adds a ply, never beyond max_depth, while alpha_beta at depth 0
\* calling quiescence and quiescence in check calling alpha_beta at depth 1
\* keep the ply, each at most once on a ply.
C21_GetTerminates ==
    /\ GetStarted ~> GetReturned
    /\ [][AnyCall => /\ Rank(Callee) < Rank(top)
                     /\ Rank(Callee) >= 0
                     /\ Callee.levels_searched >= top.levels_searched
                     /\ PushCall => Callee.levels_searched = top.levels_searched + 1
                     /\ TailCall => Callee.levels_searched = top.levels_searched]_vars

\* get has returned a move from a search in which quiescence, in check
\* below the cap, went on as alpha_beta at depth 1
C21_Witness ==
    /\ GetReturned
    /\ ret.mv # NoMove
    /\ \E k \in 1 .. Len(finder.tt.entries) :
          /\ finder.tt.entries[k].depth = 1
          /\ finder.tt.entries[k].ply >= finder.depth


\* some activation on the stack is a call of quiescence or stands for one
InQuiescence ==
    \E j \in 1 .. Len(stack) :
        \E k \in 1 .. Len(stack[j].chain) : stack[j].chain[k].fn = "quiescence"
\* the running activation is alpha_beta at depth 1 or more, below a
\* quiescence that found its side in check
InEscape ==
    /\ stack # <<>> /\ top.fn = "alpha_beta" /\ top.depth >= 1
    /\ \E j \in 1 .. Len(stack) :
          \E k \in 2 .. Len(stack[j].chain) :
              /\ stack[j].chain[k - 1].fn = "quiescence"
              /\ stack[j].chain[k] = Call("alpha_beta", 1)

\* C22 as stated: from alpha_beta calling quiescence at depth 0 until that
\* call returns, no step changes the transposition table, in check or not.
C22_NoStoreDuringQuiescence == [][InQuiescence => finder'.tt = finder.tt]_vars

\* C22 as the program has it: while a call of quiescence is running the
\* table is changed by no step of quiescence and by no alpha_beta at depth 0,
\* only by an alpha_beta of depth 1 or more that runs because a quiescence
\* node found its side in check.
C22_OnlyEscapeStores ==
    [][(InQuiescence /\ finder'.tt # finder.tt) => InEscape]_vars

\* the alpha_beta that stood in for a quiescence in check has returned and
\* left an entry of depth 1 for the position quiescence was called on
C22_Witness ==
    /\ stack # <<>> /\ ret.op = "alpha_beta"
    /\ Len(ret.chain) >= 2
    /\ ret.chain[Len(ret.chain) - 1].fn = "quiescence"
    /\ LET k == tt_find(finder.tt, game.state.zobrist)
       IN  /\ k # 0
           /\ finder.tt.entries[k].depth = 1
           /\ finder.tt.entries[k].ply = ret.levels_searched


\* pick_move called on the list with start_idx, then start_idx + 1, and so on
\* to the end of the list
RECURSIVE pick_all(_, _, _)
pick_all(mv_list, scores, start_idx) ==
    IF start_idx >= Len(mv_list) THEN [mv_list |-> mv_list, scores |-> scores]
    ELSE LET picked == pick_move(mv_list, scores, start_idx)
         IN  pick_all(picked.mv_list, picked.scores, start_idx + 1)
Paired(mv_list, scores) == {<<mv_list[k], scores[k]>> : k \in 1 .. Len(mv_list)}
\* one call: the move returned has the highest score from start_idx on and
\* the lowest index among those that have it; it is swapped with the move at
\* start_idx and nothing else moves
PickedOne(m, s, i) ==
    LET picked == pick_move(m, s, i)
    IN  \E b \in (i + 1) .. Len(m) :
            /\ \A k \in (i + 1) .. Len(m) : s[k] <= s[b]
            /\ \A k \in (i + 1) .. (b - 1) : s[k] < s[b]
            /\ picked.mv = m[b]
            /\ picked.mv_list[i + 1] = m[b] /\ picked.scores[i + 1] = s[b]
            /\ picked.mv_list[b] = m[i + 1] /\ picked.scores[b] = s[i + 1]
            /\ \A k \in 1 .. Len(m) :
                   k \notin {i + 1, b} =>
                       picked.mv_list[k] = m[k] /\ picked.scores[k] = s[k]
            /\ Len(picked.mv_list) = Len(m) /\ Len(picked.scores) = Len(s)
\* all calls: every move once, scores not increasing, each with its score
PickedAll(m, s) ==
    LET all == pick_all(m, s, 0)
    IN  /\ Len(all.mv_list) = Len(m)
        /\ Paired(all.mv_list, all.scores) = Paired(m, s)
        /\ \A j, k \in 1 .. Len(m) : j < k => all.scores[j] >= all.scores[k]
        /\ \A j, k \in 1 .. Len(m) : all.mv_list[j] = all.mv_list[k] => j = k

\* C23: pick_move, called with start_idx 0, 1, ..., n-1, visits every move
\* once in an order of non-increasing score, the lowest index first among
\* equal scores; a call swaps the entry at start_idx with that of the
\* highest score from start_idx on, leaves the entries before start_idx and
\* all others where they are, and keeps each score with its move.
C23_PickMoveSelectionSort ==
    \A j \in 1 .. Len(stack) :
        LET f == stack[j]
        IN  (f.pc = "loop" /\ f.i < Len(f.mv_list)) =>
                /\ PickedOne(f.mv_list, f.scores, f.i)
                /\ f.i = 0 => PickedAll(f.mv_list, f.scores)
                /\ \A a \in 1 .. f.i : \A b \in (a + 1) .. Len(f.mv_list) :
                       f.scores[a] >= f.scores[b]

\* a node is about to pick its third move from a list in which the highest
\* score left is shared by two moves and is not at start_idx
C23_Witness ==
    /\ stack # <<>> /\ top.pc = "loop" /\ top.i = 2
    /\ \E b \in 4 .. Len(top.mv_list) :
          /\ top.scores[b] > top.scores[3]
          /\ \E c \in (b + 1) .. Len(top.mv_list) : top.scores[c] = top.scores[b]
          /\ \A k \in 3 .. Len(top.mv_list) : top.scores[k] <= top.scores[b]


\* C24: when get returns, and whenever a call of alpha_beta or quiescence
\* returns, by whichever way, the game (position, state with its Zobrist
\* key, history) is the one the call was entered with.
C24_GameAsFound ==
    [][(stack # <<>> /\ Len(stack') < Len(stack)) =>
           /\ top.entry_game # NoGame
           /\ game' = top.entry_game]_vars

\* get has returned after searching two root moves or more, and the game is
\* the position that was loaded, with its key and an empty history
C24_Witness ==
    /\ GetReturned
    /\ Len(ret.evals) >= 2
    /\ game = Game_from_fen(io.script[io.next - 1].fen)
    /\ game.state.zobrist = Zobrist_new(game.position, game.state.castle_rights,
                                        game.state.en_passant, game.state.side_to_move)


\* the moves get can choose from: the pseudo-legal list of the root
RootList ==
    IF in_check(game.position, game.state.side_to_move)
    THEN pseudo_legal_escape_moves(game, game.state.side_to_move)
    ELSE pseudo_legal_moves(game, game.state.side_to_move)
GetReturns == Running("get", "loop") /\ top.i >= Len(top.mv_list) /\ top.searched # <<>>
FirstWith(searched, e) ==
    Min({k \in 1 .. Len(searched) : searched[k].e = e})

\* C25: when the root has a legal move, the move get returns is in the
\* pseudo-legal list of the root and legal, and it is the first searched
\* move whose evaluation equals the score returned for the side to move
\* (the first legal move if no evaluation exceeded -MAX_EVAL).
C25_ReturnedMove ==
    [][GetReturns =>
          /\ ret'.kind = "some"
          /\ \E k \in 1 .. Len(RootList) : RootList[k] = ret'.mv
          /\ is_legal(game, ret'.mv)
          /\ ret'.value = (IF game.state.side_to_move = White THEN top.alpha
                           ELSE -top.alpha)
          /\ IF \E k \in 1 .. Len(top.searched) : top.searched[k].e > -MAX_EVAL
             THEN /\ \E k \in 1 .. Len(top.searched) : top.searched[k].e = top.alpha
                  /\ \A k \in 1 .. Len(top.searched) : top.searched[k].e <= top.alpha
                  /\ ret'.mv = top.searched[FirstWith(top.searched, top.alpha)].mv
             ELSE ret'.mv = top.searched[1].mv
          /\ \A k \in 1 .. Len(top.searched) : is_legal(game, top.searched[k].mv)]_vars

\* get has returned the second or a later move it searched, and a move
\* searched after it came back with the same evaluation
C25_Witness ==
    /\ GetReturned
    /\ LET alpha == IF ret.stm = White THEN ret.value ELSE -ret.value
       IN  /\ ret.evals[1] < alpha
           /\ \E j, k \in 1 .. Len(ret.evals) :
                  j < k /\ ret.evals[j] = alpha /\ ret.evals[k] = alpha


\* the captures among the moves of the side to move, and what they take
Captures == {m \in move_set(game, game.state.side_to_move) : m.capture}
Victim(m) == captured_by(game.position, game.state.side_to_move, m).piece_type
OrderingScore(m) == score_move(game, m, NoMove, NoMove, NoMove)
ByVictimThenAttacker(victim, attacker) ==
    10 * (to_usize(victim) + 1) + (5 - to_usize(attacker))
\* the table: most valuable victim first, least valuable attacker second
MvvLvaTable ==
    /\ \A v \in PieceTypes \ {"k"} : \A a \in PieceTypes :
          /\ MVV_LVA(v, a) = ByVictimThenAttacker(v, a)
          /\ MVV_LVA(v, a) \in 10 .. 55
          /\ MVV_LVA(v, a) > KILLER_MOVE_1_SORT_VAL
          /\ MVV_LVA(v, a) > KILLER_MOVE_2_SORT_VAL
          /\ MVV_LVA(v, a) < TT_MOVE_SORT_VAL
    /\ \A v1, v2 \in PieceTypes \ {"k"} : \A a1, a2 \in PieceTypes :
          /\ to_usize(v1) > to_usize(v2) => MVV_LVA(v1, a1) > MVV_LVA(v2, a2)
          /\ (v1 = v2 /\ to_usize(a1) < to_usize(a2)) => MVV_LVA(v1, a1) > MVV_LVA(v2, a2)
    /\ \A a \in PieceTypes : MVV_LVA("k", a) = 0

ConsultsKillers(f) == f.fn = "alpha_beta" /\ f.pc \notin {"entry", "after_null"}

\* C27: the killer slots a node of alpha_beta reads and writes are those of
\* its ply: nodes at the same ply use the same slots and nodes at different
\* plies use different slots, also below a null move and below the
\* alpha_beta that quiescence calls when in check.
C27_KillersPerPly ==
    \A i, j \in 1 .. Len(stack) :
        (ConsultsKillers(stack[i]) /\ ConsultsKillers(stack[j])) =>
            (stack[i].levels_searched = stack[j].levels_searched
                <=> killer_index(stack[i]) = killer_index(stack[j]))


----------------------------------------------------------------------------
(* A CastleRights value driven through set, remove_rights and              *)
(* remove_rights_for_color, with the castle part of a Zobrist key that is  *)
(* kept by XORing the old rights out and the new rights in.                *)

RightsValues == SUBSET CR_ALL
\* the castle part of Zobrist::new
ZobristOfRights(cr) == HashRightsFrom(EMPTY, cr, 0)
Rehashed(z, old, new) == hash_castle_rights_all(hash_castle_rights_all(z, old), new)

InitRights ==
    /\ \E cr \in RightsValues : io = [rights |-> cr, zobrist |-> ZobristOfRights(cr)]
    /\ game = NoGame
    /\ finder = <<>>
    /\ stack = <<>>
    /\ ret = Idle
    /\ obs = <<>>

RightsSet(side, castle) ==
    /\ io' = [rights |-> cr_set(io.rights, side, castle),
              zobrist |-> Rehashed(io.zobrist, io.rights,
                                   cr_set(io.rights, side, castle))]
    /\ ret' = [op |-> "set", side |-> side, castle |-> castle, before |-> io.rights]
    /\ UNCHANGED <<game, finder, stack, obs>>

RightsRemove(side, castle) ==
    /\ io' = [rights |-> remove_rights(io.rights, side, castle),
              zobrist |-> Rehashed(io.zobrist, io.rights,
                                   remove_rights(io.rights, side, castle))]
    /\ ret' = [op |-> "remove_rights", side |-> side, castle |-> castle,
               before |-> io.rights]
    /\ UNCHANGED <<game, finder, stack, obs>>

RightsRemoveForColor(side) ==
    /\ io' = [rights |-> remove_rights_for_color(io.rights, side),
              zobrist |-> Rehashed(io.zobrist, io.rights,
                                   remove_rights_for_color(io.rights, side))]
    /\ ret' = [op |-> "remove_rights_for_color", side |-> side, castle |-> "-",
               before |-> io.rights]
    /\ UNCHANGED <<game, finder, stack, obs>>

RightsDisplay ==
    /\ ret' = [op |-> "to_string", value |-> cr_display(io.rights)]
    /\ UNCHANGED <<game, finder, stack, obs, io>>

\* hash_castle_rights_all with the rights held, once and once more
RightsHashTwice ==
    /\ ret' = [op |-> "hash_castle_rights_all",
               once |-> hash_castle_rights_all(io.zobrist, io.rights),
               twice |-> hash_castle_rights_all(
                             hash_castle_rights_all(io.zobrist, io.rights), io.rights)]
    /\ UNCHANGED <<game, finder, stack, obs, io>>

NextRights ==
    \/ \E side \in Sides : \E castle \in Castles : RightsSet(side, castle)
    \/ \E side \in Sides : \E castle \in Castles : RightsRemove(side, castle)
    \/ \E side \in Sides : RightsRemoveForColor(side)
    \/ RightsDisplay
    \/ RightsHashTwice

SpecRights == InitRights /\ [][NextRights]_vars

Pairs == Sides \X Castles
Letter(side, castle) ==
    IF side = White THEN (IF castle = Kingside THEN "K" ELSE "Q")
    ELSE (IF castle = Kingside THEN "k" ELSE "q")
\* the letters of the rights held, in the order K, Q, k, q
RECURSIVE LettersFrom(_, _)
LettersFrom(cr, order) ==
    IF order = <<>> THEN <<>>
    ELSE (IF can(cr, Head(order)[1], Head(order)[2])
          THEN <<Letter(Head(order)[1], Head(order)[2])>> ELSE <<>>)
         \o LettersFrom(cr, Tail(order))
DisplayOrder ==
    <<<<White, Kingside>>, <<White, Queenside>>, <<Black, Kingside>>,
      <<Black, Queenside>>>>
\* the bit of a right in the u8: 0b1000 WK, 0b0100 WQ, 0b0010 BK, 0b0001 BQ
RightBit(side, castle) ==
    IF side = White THEN (IF castle = Kingside THEN 3 ELSE 2)
    ELSE (IF castle = Kingside THEN 1 ELSE 0)
OthersKept(before, after, changed) ==
    \A q \in Pairs \ changed : can(after, q[1], q[2]) = can(before, q[1], q[2])

\* C28: castle rights are four independent bits: set makes can true and
\* remove_rights makes it false for their pair and leave every other pair
\* as it was, both are idempotent, remove_rights_for_color clears the two
\* rights of its side and no other, the rights print as the letters held
\* in the order K, Q, k, q, or as - when none is held, and a value is the
\* set of the bits of the rights it holds.
C28_FourIndependentRights ==
    /\ ret.op = "set" =>
          /\ can(io.rights, ret.side, ret.castle)
          /\ OthersKept(ret.before, io.rights, {<<ret.side, ret.castle>>})
          /\ cr_set(io.rights, ret.side, ret.castle) = io.rights
    /\ ret.op = "remove_rights" =>
          /\ ~can(io.rights, ret.side, ret.castle)
          /\ OthersKept(ret.before, io.rights, {<<ret.side, ret.castle>>})
          /\ remove_rights(io.rights, ret.side, ret.castle) = io.rights
    /\ ret.op = "remove_rights_for_color" =>
          /\ \A castle \in Castles : ~can(io.rights, ret.side, castle)
          /\ OthersKept(ret.before, io.rights, {ret.side} \X Castles)
    /\ ret.op = "to_string" =>
          ret.value = (IF \A q \in Pairs : ~can(io.rights, q[1], q[2]) THEN <<"-">>
                       ELSE LettersFrom(io.rights, DisplayOrder))
    /\ io.rights = {RightBit(q[1], q[2]) : q \in {p \in Pairs : can(io.rights, p[1], p[2])}}

\* one right has been taken from a side that held both, the other side
\* holding one
C28_Witness ==
    /\ ret.op = "remove_rights"
    /\ can(ret.before, ret.side, ret.castle)
    /\ \E castle \in Castles : can(io.rights, ret.side, castle)
    /\ \E castle \in Castles : can(io.rights, opposite(ret.side), castle)
    /\ \E castle \in Castles : ~can(io.rights, opposite(ret.side), castle)

\* the key entry hash_castle_rights_single uses for a pair
SingleKey(side, castle) ==
    CHOOSE key \in 0 .. SIDE_KEY : hash_castle_rights_single(EMPTY, side, castle) = {key}
SingleIndex(side, castle) ==
    IF side = White THEN (IF castle = Kingside THEN 3 ELSE 2)
    ELSE (IF castle = Kingside THEN 1 ELSE 0)

\* C29: hash_castle_rights_all(r) XORs into the key exactly the
\* CASTLE_RIGHTS_KEY entries hash_castle_rights_single uses for the pairs r
\* holds (WK 3, WQ 2, BK 1, BQ 0), each once; the key kept by XORing rights
\* out and in with hash_castle_rights_all is the key Zobrist::new builds
\* right by right; hashing the same rights twice leaves the key as it was.
C29_CastleHashesAgree ==
    /\ \A q \in Pairs :
          hash_castle_rights_single(EMPTY, q[1], q[2])
              = {CASTLE_RIGHTS_KEY(SingleIndex(q[1], q[2]))}
    /\ hash_castle_rights_all(EMPTY, io.rights)
          = {SingleKey(q[1], q[2]) : q \in {p \in Pairs : can(io.rights, p[1], p[2])}}
    /\ Cardinality(hash_castle_rights_all(EMPTY, io.rights)) = Cardinality(io.rights)
    /\ Len(cr_iter(io.rights)) = Cardinality(io.rights)
    /\ hash_castle_rights_all(EMPTY, io.rights) = ZobristOfRights(io.rights)
    /\ io.zobrist = ZobristOfRights(io.rights)
    /\ ret.op = "hash_castle_rights_all" =>
          /\ ret.twice = io.zobrist
          /\ BitXor(ret.once, io.zobrist) = hash_castle_rights_all(EMPTY, io.rights)

\* a right has just been added to rights of both sides, and the key kept by
\* XOR has changed by that right's entry alone
C29_Witness ==
    /\ ret.op = "set"
    /\ ~can(ret.before, ret.side, ret.castle)
    /\ \E castle \in Castles : can(ret.before, White, castle)
    /\ \E castle \in Castles : can(ret.before, Black, castle)
    /\ BitXor(io.zobrist, ZobristOfRights(ret.before)) = {SingleKey(ret.side, ret.castle)}


----------------------------------------------------------------------------
(* A BBIterator driven over bitboards with bits at both ends of the u64    *)
(* and around bit 31, and lsb asked of the same boards.                    *)

BitSquares == {0, 1, 7, 31, 32, 62, 63}
BitBoards == SUBSET BitSquares
None == NoSquare

InitBits ==
    /\ io = [bb |-> EMPTY, iter |-> EMPTY]
    /\ game = NoGame
    /\ finder = <<>>
    /\ stack = <<>>
    /\ ret = Idle
    /\ obs = <<>>

\* an iterator over bb
BBIter(bb) ==
    /\ io' = [bb |-> bb, iter |-> bb]
    /\ obs' = <<>>
    /\ ret' = [op |-> "iter", value |-> None]
    /\ UNCHANGED <<game, finder, stack>>

\* BBIterator::next
BBNext ==
    /\ ret.op \in {"iter", "next"}
    /\ IF io.iter = EMPTY
       THEN /\ ret' = [op |-> "next", value |-> None]
            /\ UNCHANGED <<io, obs>>
       ELSE LET sq == bitscan(io.iter)
                lsb_bb == lsb(io.iter)
            IN  /\ io' = [io EXCEPT !.iter = BitXor(io.iter, lsb_bb)]
                /\ obs' = Append(obs, sq)
                /\ ret' = [op |-> "next", value |-> sq]
    /\ UNCHANGED <<game, finder, stack>>

BBLsb(bb) ==
    /\ ret' = [op |-> "lsb", value |-> lsb(bb)]
    /\ io' = [bb |-> bb, iter |-> EMPTY]
    /\ obs' = <<>>
    /\ UNCHANGED <<game, finder, stack>>

NextBits ==
    \/ \E bb \in BitBoards : BBIter(bb)
    \/ BBNext
    \/ \E bb \in BitBoards : BBLsb(bb)

SpecBits == InitBits /\ [][NextBits]_vars

Yielded == {obs[k] : k \in 1 .. Len(obs)}

\* C30: iterating a bitboard yields each member square once, in strictly
\* increasing index, the lowest set bit first and cleared when yielded, and
\* ends after popcount items, at once for the empty board; lsb is the board
\* of the lowest set square alone, and empty for the empty board.
C30_IterationLowToHigh ==
    /\ ret.op \in {"iter", "next"} =>
          /\ \A j, k \in 1 .. Len(obs) : j < k => obs[j] < obs[k]
          /\ Yielded \cup io.iter = io.bb
          /\ Yielded \cap io.iter = {}
          /\ \A sq \in Yielded : \A later \in io.iter : sq < later
          /\ Len(obs) = count_ones(io.bb) - count_ones(io.iter)
          /\ (ret.op = "next" /\ ret.value # None) => ret.value = obs[Len(obs)]
          /\ (ret.op = "next" /\ ret.value = None) =>
                 Len(obs) = count_ones(io.bb) /\ Yielded = io.bb
          /\ (ret.op = "next" /\ io.bb = EMPTY) => ret.value = None
    /\ ret.op = "lsb" =>
          /\ io.bb = EMPTY => ret.value = EMPTY
          /\ io.bb # EMPTY =>
                 /\ count_ones(ret.value) = 1
                 /\ ret.value \subseteq io.bb
                 /\ \A sq \in io.bb : \A low \in ret.value : low <= sq

\* the iterator has yielded bits 31, 32 and 63 of a board of four bits or
\* more and then None
C30_Witness ==
    /\ ret.op = "next" /\ ret.value = None
    /\ Len(obs) >= 4
    /\ {31, 32, 63} \subseteq Yielded

====
